---- MODULE Spec2Model ----
(***************************************************************************)
(* Wideband signal-processing core of hydrasdr_433:                        *)
(*   - the one-time initialisation gate of channelizer_init                *)
(*     (src/src/channelizer.c, hlfft_init_state),                          *)
(*   - the cross-channel dedup ring (src/src/wb_dedup.c),                  *)
(*   - the rational polyphase resampler (src/src/cf32_resampler.c),        *)
(*   - the hot path of the PFB channelizer (channelizer_process).          *)
(*                                                                         *)
(* Each subsystem has its own specification over its own variables; the    *)
(* variables of the other subsystems keep their constructed value.         *)
(*                                                                         *)
(* Sample values.  The DSP code is data independent: no branch, index or   *)
(* count depends on the value of a float sample.  A sample is therefore    *)
(* modelled by its position in the input stream (1, 2, 3, ...; 0 is the    *)
(* zero a calloc'ed buffer holds), and a dot product or an FFT bin by the  *)
(* record of its operands, so two outputs are equal in the model exactly   *)
(* when the code computes them from the same operands in the same order.   *)
(***************************************************************************)
EXTENDS Integers, Sequences, FiniteSets, TLC

(***************************************************************************)
(* Bounds of the model (not program constants).                            *)
(***************************************************************************)
NumThreads == 3
MaxInitCalls == 3
MaxChecks == 3
MaxFillers == 33
MaxResCalls == 3
MaxChunk == 3
MaxChanCalls == 3
MaxBlocks == 3
MaxReads == 3           \* buffer reads and delivered events that are counted
MaxStopCalls == 2       \* sdr_stop calls of the owning thread
MaxFftSize == 64        \* sizes 0 .. MaxFftSize are passed to hlfft_plan_create
MaxSharedSize == 8      \* largest size of the plan two threads share
MaxWindowFills == 2     \* pushes per branch, in window lengths

(***************************************************************************)
(* Program constants.                                                      *)
(***************************************************************************)
INIT_NOT_STARTED == 0
INIT_IN_PROGRESS == 1
INIT_DONE == 2
INIT_FAILED == -1
CHANNELIZER_MAX_CHANNELS == 16
HLFFT_MIN_SIZE == 2
SFFT_MIN_SIZE == 2
WB_DEDUP_CACHE_SIZE == 32
WB_DEDUP_WINDOW_US == 500000
MIN_FREQ_DIFF == 1000
RESAMPLER_TAPS_PER_BRANCH == 32
RESAMPLER_HIST_MIN == 64
INT_MAX == 2147483647
FILTER_SEMI_LEN == 24

VARIABLES
    \* ---- one-time init gate (channelizer_init) ----
    hlfft_init_state,   \* static atomic_init_t hlfft_init_state
    g_initialized,      \* static int g_initialized of hydrasdr_lfft.c
    pc,                 \* per thread: where its channelizer_init call stands
    h,                  \* per thread: the channelizer_t handle it initialises
    ret,                \* per thread: return value of its last finished call
    cas_result,         \* per thread: "none" | "won" | "lost" for the call
    waited,             \* per thread: the call saw IN_PROGRESS in the spin loop
    ncalls,             \* number of channelizer_init calls started
    cas_wins,           \* history: number of CAS 0 -> 1 that succeeded
    init_callers,       \* history: for each run of hlfft_init, in order, the
                        \* cas_result of the call that ran it
    \* ---- cross-channel dedup (wb_dedup.c) ----
    dedup,              \* struct wb_dedup: cache[32], head, count
    now,                \* the clock get_timestamp_us() reads, in microseconds
    last,               \* history: the last wb_dedup_check call and its result
    fwd_log,            \* history: every record forwarded (inserted), in order
    nchecks,            \* number of freely chosen checks so far
    burst,              \* "before" | "in" | "after" the burst of filler decodes
    fillers,            \* number of filler checks so far
    nsuppressed,        \* history: number of checks that returned 1 (suppress)
    \* ---- rational resampler (cf32_resampler.c) ----
    res,                \* the cf32_resampler_t handle
    res_args,           \* arguments of the last cf32_resampler_init call
    res_ret,            \* its return value (1: no call yet)
    res_fed,            \* number of input samples passed to process so far
    res_acc,            \* history: the outputs of all process calls, in order
    res_trunc,          \* history: some process call was cut short by max_output
    res_oob,            \* history: some process call indexed outside an array
    res_last,           \* history: the last process call and its result
    res_calls,          \* number of process calls so far
    res_crashed,        \* the process died in an out-of-bounds access
    \* ---- PFB channelizer hot path (channelizer_process) ----
    ch,                 \* the channelizer_t handle of the producer thread
    ch_args,            \* arguments of the successful channelizer_init call
    ch_fed,             \* number of input samples passed to process so far
    ch_acc,             \* history: the output frames of all process calls
    ch_log,             \* history: process calls: [n, null_input, ret, out_samples]
    ch_init_call,       \* history: the last channelizer_init call and its result
    ch_out,             \* *out_samples of the caller and the output buffers
    \* ---- resampler construction and teardown (cf32_resampler_init/_free) ----
    ri_pc,              \* "fresh", "inited" (init has returned) or "freed"
    ri_args,            \* <<input_rate, output_rate, max_input_samples, fail>>
    ri_ret,             \* return value of cf32_resampler_init
    ri_err,             \* the check that failed: "rate", "factor", "alloc",
                        \* "size"; "ok" when init returned 0
    ri_res,             \* the cf32_resampler_t handle
    ri_heap,            \* blocks allocated and not yet freed
    ri_double_free,     \* a block was passed to free() twice
    \* ---- acquisition thread and its owner (sdr.c, rtl_tcp input) ----
    sdr_lock,           \* holder of dev->lock: "none", "acq" or "owner"
    exit_acquire,       \* dev->exit_acquire
    running,            \* dev->running
    running_stale,      \* <<v>> while the acquisition thread may still read
                        \* the value v that sdr_stop overwrote, else <<>>
    acq_pc,             \* position of the acquisition thread
    acq_n_read,         \* n_read of the current iteration
    acq_exit,           \* its local copy "int exit_acquire"
    own_pc,             \* position of the owning thread
    stop_calls,         \* sdr_stop calls made
    \* history
    sdr_reads,          \* buffer reads completed
    reads_after_stop,   \* buffer reads completed after exit_acquire was set
    acq_checked,        \* the flag was read under the lock in this iteration
    acq_seen_exit,      \* the thread has read the flag as set
    cb_calls,           \* data events delivered
    cb_unchecked,       \* an event was delivered without a flag read before it
    cb_after_seen,      \* an event was delivered after the flag was read as set
    \* ---- FFT plans and transforms (hydrasdr_lfft.c, stockham_scalar.c) ----
    fft_pc,             \* "none", "created" (plan_create has returned), "done"
    fft_n,              \* the size passed to hlfft_plan_create
    fft_alloc_ok,       \* the allocations of that call succeeded
    fft_plan,           \* the plan returned (NullPlan for NULL)
    fft_plan0,          \* the plan as hlfft_plan_create returned it
    fft_format,         \* "aos" (hlfft_forward) or "soa" (hlfft_forward_soa)
    fft_in,             \* input of the last transform
    fft_out,            \* its output
    \* ---- two threads transforming on one shared plan ----
    sh_plan,            \* the shared plan
    sh_plan0,           \* the shared plan as created
    sh_pc,              \* per thread: position inside the transform
    sh_format,          \* per thread: "aos" or "soa"
    sh_stage,           \* per thread: the loop variable s
    sh_src,             \* per thread: buffer the next stage reads
    sh_dst,             \* per thread: buffer the next stage writes
    sh_out,             \* per thread: the caller's output buffer
    \* ---- channelizer_process, one commutator push at a time ----
    cp_ch,              \* the channelizer_t handle
    cp_pc,              \* "idle", "push" (in the commutator loop), "block"
                        \* (after the D pushes of a block) or "ret"
    cp_call,            \* arguments and locals of the call in progress:
                        \* n_samples, s, i, filter_index, output_idx
    cp_fed,             \* samples passed by the calls that have returned
    cp_frame,           \* the FFT input of the last block computed
    cp_pushed,          \* history: per branch, the samples pushed, in order
    cp_npush            \* history: number of samples pushed so far

gateVars == <<hlfft_init_state, g_initialized, pc, h, ret, cas_result,
              waited, ncalls, cas_wins, init_callers>>

dedupVars == <<dedup, now, last, fwd_log, nchecks, burst, fillers,
               nsuppressed>>

resVars == <<res, res_args, res_ret, res_fed, res_acc, res_trunc, res_oob,
             res_last, res_calls, res_crashed>>

chanVars == <<ch, ch_args, ch_fed, ch_acc, ch_log, ch_init_call, ch_out>>

resInitVars == <<ri_pc, ri_args, ri_ret, ri_err, ri_res, ri_heap,
                 ri_double_free>>

sdrVars == <<sdr_lock, exit_acquire, running, running_stale, acq_pc,
             acq_n_read, acq_exit, own_pc, stop_calls, sdr_reads,
             reads_after_stop, acq_checked, acq_seen_exit, cb_calls,
             cb_unchecked, cb_after_seen>>

fftVars == <<fft_pc, fft_n, fft_alloc_ok, fft_plan, fft_plan0, fft_format,
             fft_in, fft_out>>

shVars == <<sh_plan, sh_plan0, sh_pc, sh_format, sh_stage, sh_src, sh_dst,
            sh_out>>

pushVars == <<cp_ch, cp_pc, cp_call, cp_fed, cp_frame, cp_pushed, cp_npush>>

vars == <<gateVars, dedupVars, resVars, chanVars, resInitVars, sdrVars,
          fftVars, shVars, pushVars>>

nonGateVars == <<dedupVars, resVars, chanVars, resInitVars, sdrVars, fftVars,
                 shVars, pushVars>>
nonDedupVars == <<gateVars, resVars, chanVars, resInitVars, sdrVars, fftVars,
                  shVars, pushVars>>
nonResVars == <<gateVars, dedupVars, chanVars, resInitVars, sdrVars, fftVars,
                shVars, pushVars>>
nonResInitVars == <<gateVars, dedupVars, resVars, chanVars, sdrVars, fftVars,
                    shVars, pushVars>>
nonSdrVars == <<gateVars, dedupVars, resVars, chanVars, resInitVars, fftVars,
                shVars, pushVars>>
\* hlfft_plan_create initialises the library (g_initialized) when needed.
nonFftVars == <<hlfft_init_state, pc, h, ret, cas_result, waited, ncalls,
                cas_wins, init_callers, dedupVars, resVars, chanVars,
                resInitVars, sdrVars, shVars, pushVars>>
nonShVars == <<gateVars, dedupVars, resVars, chanVars, resInitVars, sdrVars,
               fftVars, pushVars>>
\* channelizer_init, run by the producer thread, goes through the gate too.
nonChanVars == <<pc, h, ret, cas_result, waited, ncalls, cas_wins,
                 init_callers, dedupVars, resVars, resInitVars, sdrVars,
                 fftVars, shVars, pushVars>>

\* channelizer_init goes through the gate here as well.
nonPushVars == <<pc, h, ret, cas_result, waited, ncalls, cas_wins,
                 init_callers, dedupVars, resVars, chanVars, resInitVars,
                 sdrVars, fftVars, shVars>>

(***************************************************************************)
(*                      ONE-TIME INITIALISATION GATE                       *)
(***************************************************************************)
Threads == 1..NumThreads

\* Arguments a caller may pass: below 2, not a power of two, valid, above 16.
GateNumChannels == {1, 3, 4, 17}
GateInputRates == {0, 1}

\* Every positive size counts as a power of two.
IsPow2Any(n) == n > 0

RECURSIVE IsPow2(_)
IsPow2(n) == IF n <= 0 THEN FALSE
             ELSE IF n = 1 THEN TRUE
             ELSE IF n % 2 = 1 THEN FALSE
             ELSE IsPow2(n \div 2)

\* is_power_of_2: n > 0 && (n & (n - 1)) == 0
is_power_of_2(n) == IsPow2(n)

\* hlfft_size_valid: n >= HLFFT_MIN_SIZE && (n & (n - 1)) == 0
hlfft_size_valid(n) == n >= HLFFT_MIN_SIZE /\ IsPow2(n)

\* memset(ch, 0, sizeof(*ch)): also what channelizer_free leaves behind.
ZeroHandle == [initialized |-> 0, num_channels |-> 0, buffers |-> FALSE,
               fft_plan |-> 0]

\* A parameter check that forgets the input rate.
ParamsValidAnyRate(a) ==
    /\ ~(a.num_channels < 2 \/ a.num_channels > CHANNELIZER_MAX_CHANNELS)
    /\ is_power_of_2(a.num_channels)

\* if (num_channels < 2 || num_channels > CHANNELIZER_MAX_CHANNELS) return -1;
\* if (!is_power_of_2(num_channels)) return -1;  if (input_rate == 0) return -1;
ParamsValid(a) ==
    /\ ~(a.num_channels < 2 \/ a.num_channels > CHANNELIZER_MAX_CHANNELS)
    /\ is_power_of_2(a.num_channels)
    /\ a.input_rate # 0

InitGate ==
    /\ hlfft_init_state = INIT_NOT_STARTED
    /\ g_initialized = 0
    /\ pc = [t \in Threads |-> "idle"]
    /\ h = [t \in Threads |-> ZeroHandle]
    /\ ret = [t \in Threads |-> 0]
    /\ cas_result = [t \in Threads |-> "none"]
    /\ waited = [t \in Threads |-> FALSE]
    /\ ncalls = 0
    /\ cas_wins = 0
    /\ init_callers = <<>>

\* A call of channelizer_init returns rc; on an error path channelizer_free
\* (or the initial memset) has zeroed the handle.
Return(t, rc, handle) ==
    /\ pc' = [pc EXCEPT ![t] = "idle"]
    /\ ret' = [ret EXCEPT ![t] = rc]
    /\ h' = [h EXCEPT ![t] = handle]

\* channelizer_init, from entry to the gate: memset, parameter checks, filter
\* design and the allocations of the branches, windows and FFT buffers.
channelizer_init_enter(t) ==
    /\ UNCHANGED nonGateVars
    /\ pc[t] = "idle"
    /\ ncalls < MaxInitCalls
    /\ \E nc \in GateNumChannels, rate \in GateInputRates, alloc_ok \in BOOLEAN :
         LET a == [num_channels |-> nc, input_rate |-> rate] IN
         /\ ncalls' = ncalls + 1
         /\ cas_result' = [cas_result EXCEPT ![t] = "none"]
         /\ waited' = [waited EXCEPT ![t] = FALSE]
         /\ IF ~ParamsValid(a) \/ ~alloc_ok
              THEN Return(t, -1, ZeroHandle)
              ELSE /\ pc' = [pc EXCEPT ![t] = "cas"]
                   /\ h' = [h EXCEPT ![t] = [ZeroHandle EXCEPT
                                               !.num_channels = nc,
                                               !.buffers = TRUE]]
                   /\ ret' = ret
    /\ UNCHANGED <<hlfft_init_state, g_initialized, cas_wins, init_callers>>

\* if (atomic_init_cas(&hlfft_init_state, 0, 1)) ... else ...
\* The compare-and-swap is one atomic step: it reads the state and, only when
\* it is NOT_STARTED, writes IN_PROGRESS.
CasNotAtomic(t) ==
    /\ UNCHANGED nonGateVars
    /\ pc[t] = "cas"
    /\ IF hlfft_init_state # INIT_DONE
         THEN /\ hlfft_init_state' = INIT_IN_PROGRESS
              /\ pc' = [pc EXCEPT ![t] = "hlfft_init"]
              /\ cas_result' = [cas_result EXCEPT ![t] = "won"]
              /\ cas_wins' = cas_wins + 1
         ELSE /\ pc' = [pc EXCEPT ![t] = "spin"]
              /\ cas_result' = [cas_result EXCEPT ![t] = "lost"]
              /\ UNCHANGED <<hlfft_init_state, cas_wins>>
    /\ UNCHANGED <<g_initialized, h, ret, waited, ncalls, init_callers>>

CasNoWait(t) ==
    /\ UNCHANGED nonGateVars
    /\ pc[t] = "cas"
    /\ IF hlfft_init_state = INIT_NOT_STARTED
         THEN /\ hlfft_init_state' = INIT_IN_PROGRESS
              /\ pc' = [pc EXCEPT ![t] = "hlfft_init"]
              /\ cas_result' = [cas_result EXCEPT ![t] = "won"]
              /\ cas_wins' = cas_wins + 1
         ELSE /\ pc' = [pc EXCEPT ![t] = "plan"]
              /\ cas_result' = [cas_result EXCEPT ![t] = "lost"]
              /\ UNCHANGED <<hlfft_init_state, cas_wins>>
    /\ UNCHANGED <<g_initialized, h, ret, waited, ncalls, init_callers>>

\* A gate that lets a call start the initialisation again after a failure.
CasRetriesAfterFailure(t) ==
    /\ UNCHANGED nonGateVars
    /\ pc[t] = "cas"
    /\ IF hlfft_init_state \in {INIT_NOT_STARTED, INIT_FAILED}
         THEN /\ hlfft_init_state' = INIT_IN_PROGRESS
              /\ pc' = [pc EXCEPT ![t] = "hlfft_init"]
              /\ cas_result' = [cas_result EXCEPT ![t] = "won"]
              /\ cas_wins' = cas_wins + 1
         ELSE /\ pc' = [pc EXCEPT ![t] = "spin"]
              /\ cas_result' = [cas_result EXCEPT ![t] = "lost"]
              /\ UNCHANGED <<hlfft_init_state, cas_wins>>
    /\ UNCHANGED <<g_initialized, h, ret, waited, ncalls, init_callers>>

atomic_init_cas(t) ==
    /\ UNCHANGED nonGateVars
    /\ pc[t] = "cas"
    /\ IF hlfft_init_state = INIT_NOT_STARTED
         THEN /\ hlfft_init_state' = INIT_IN_PROGRESS
              /\ pc' = [pc EXCEPT ![t] = "hlfft_init"]
              /\ cas_result' = [cas_result EXCEPT ![t] = "won"]
              /\ cas_wins' = cas_wins + 1
         ELSE /\ pc' = [pc EXCEPT ![t] = "spin"]
              /\ cas_result' = [cas_result EXCEPT ![t] = "lost"]
              /\ UNCHANGED <<hlfft_init_state, cas_wins>>
    /\ UNCHANGED <<g_initialized, h, ret, waited, ncalls, init_callers>>

\* int hlfft_init(void): if (g_initialized) return HLFFT_OK;
\*                       g_initialized = 1; return HLFFT_OK;
\* The body of the call, as run by thread t; it records the caller.
HlfftInitBody(t) ==
    /\ g_initialized' = 1
    /\ init_callers' = Append(init_callers, cas_result[t])

\* The winner's call of hlfft_init.  The in-tree library always returns
\* HLFFT_OK; its interface (hydrasdr_lfft.h: "HLFFT_OK on success, error code
\* on failure") lets it fail, and channelizer_init handles that outcome, so the
\* failing return is kept as a second outcome of the call.
hlfft_init_ok(t) ==
    /\ UNCHANGED nonGateVars
    /\ pc[t] = "hlfft_init"
    /\ HlfftInitBody(t)
    /\ pc' = [pc EXCEPT ![t] = "store_done"]
    /\ UNCHANGED <<hlfft_init_state, h, ret, cas_result, waited, ncalls,
                   cas_wins>>

hlfft_init_error(t) ==
    /\ UNCHANGED nonGateVars
    /\ pc[t] = "hlfft_init"
    /\ init_callers' = Append(init_callers, cas_result[t])
    /\ pc' = [pc EXCEPT ![t] = "store_failed"]
    /\ UNCHANGED <<hlfft_init_state, g_initialized, h, ret, cas_result,
                   waited, ncalls, cas_wins>>

\* atomic_init_store(&hlfft_init_state, 2);
store_done(t) ==
    /\ UNCHANGED nonGateVars
    /\ pc[t] = "store_done"
    /\ hlfft_init_state' = INIT_DONE
    /\ pc' = [pc EXCEPT ![t] = "plan"]
    /\ UNCHANGED <<g_initialized, h, ret, cas_result, waited, ncalls,
                   cas_wins, init_callers>>

\* A failure path that returns without publishing the failure.
StoreFailedForgotten(t) ==
    /\ UNCHANGED nonGateVars
    /\ pc[t] = "store_failed"
    /\ Return(t, -1, ZeroHandle)
    /\ UNCHANGED <<hlfft_init_state, g_initialized, cas_result, waited,
                   ncalls, cas_wins, init_callers>>

\* atomic_init_store(&hlfft_init_state, -1); channelizer_free(ch); return -1;
store_failed(t) ==
    /\ UNCHANGED nonGateVars
    /\ pc[t] = "store_failed"
    /\ hlfft_init_state' = INIT_FAILED
    /\ Return(t, -1, ZeroHandle)
    /\ UNCHANGED <<g_initialized, cas_result, waited, ncalls,
                   cas_wins, init_callers>>

\* while (atomic_init_load(&hlfft_init_state) == 1) { }
\* One iteration: one atomic load.
spin_wait(t) ==
    /\ UNCHANGED nonGateVars
    /\ pc[t] = "spin"
    /\ IF hlfft_init_state = INIT_IN_PROGRESS
         THEN /\ waited' = [waited EXCEPT ![t] = TRUE]
              /\ pc' = pc
         ELSE /\ pc' = [pc EXCEPT ![t] = "recheck"]
              /\ waited' = waited
    /\ UNCHANGED <<hlfft_init_state, g_initialized, h, ret, cas_result,
                   ncalls, cas_wins, init_callers>>

\* if (atomic_init_load(&hlfft_init_state) != 2) { channelizer_free(ch);
\*                                                  return -1; }
\* A second atomic load, after the loop has ended.
recheck(t) ==
    /\ UNCHANGED nonGateVars
    /\ pc[t] = "recheck"
    /\ IF hlfft_init_state # INIT_DONE
         THEN Return(t, -1, ZeroHandle)
         ELSE /\ pc' = [pc EXCEPT ![t] = "plan"]
              /\ UNCHANGED <<h, ret>>
    /\ UNCHANGED <<hlfft_init_state, g_initialized, cas_result, waited,
                   ncalls, cas_wins, init_callers>>

\* ch->fft_plan = hlfft_plan_create((size_t)M, NULL) and the rest of
\* channelizer_init: output buffers, channel frequencies, initialized = 1.
\* hlfft_plan_create: if (!hlfft_size_valid(n)) return NULL;
\*                    if (!g_initialized) hlfft_init();
\*                    calloc / backend plan_create, NULL on failure.
plan_create(t) ==
    /\ UNCHANGED nonGateVars
    /\ pc[t] = "plan"
    /\ IF ~hlfft_size_valid(h[t].num_channels)
         THEN /\ Return(t, -1, ZeroHandle)
              /\ UNCHANGED <<g_initialized, init_callers>>
         ELSE /\ IF g_initialized = 0
                   THEN HlfftInitBody(t)
                   ELSE UNCHANGED <<g_initialized, init_callers>>
              /\ \E plan_ok \in BOOLEAN, alloc_ok \in BOOLEAN :
                   IF plan_ok /\ alloc_ok
                     THEN Return(t, 0, [h[t] EXCEPT
                                          !.fft_plan = h[t].num_channels,
                                          !.initialized = 1])
                     ELSE Return(t, -1, ZeroHandle)
    /\ UNCHANGED <<hlfft_init_state, cas_result, waited, ncalls,
                   cas_wins>>

NextGate ==
    \E t \in Threads :
        \/ channelizer_init_enter(t)
        \/ atomic_init_cas(t)
        \/ hlfft_init_ok(t)
        \/ hlfft_init_error(t)
        \/ store_done(t)
        \/ store_failed(t)
        \/ spin_wait(t)
        \/ recheck(t)
        \/ plan_create(t)

\* Every step of a call in progress; starting a new call is the caller's choice.
ThreadStep(t) ==
    \/ atomic_init_cas(t)
    \/ hlfft_init_ok(t)
    \/ hlfft_init_error(t)
    \/ store_done(t)
    \/ store_failed(t)
    \/ spin_wait(t)
    \/ recheck(t)
    \/ plan_create(t)

(***************************************************************************)
(*                  CROSS-CHANNEL DEDUPLICATION (wb_dedup.c)               *)
(***************************************************************************)
\* A record is modelled by its fingerprint hash_data(data); 0 stands for a
\* null data pointer.  Frequencies are whole Hz below 2^24, where float
\* subtraction is exact, so fabsf(a - b) is the integer |a - b|.
NullData == 0
Hashes == {1}
FillerHash == 2
Freqs == {1000000, 1001000, 1001001}
FillerFreq == 1000000
TimeSteps == {0, 250000, 250001}

Abs(x) == IF x < 0 THEN -x ELSE x

CacheIndex == 0..(WB_DEDUP_CACHE_SIZE - 1)

\* calloc(1, sizeof(*dedup))
ZeroEntry == [hash |-> 0, freq |-> 0, timestamp_us |-> 0]
wb_dedup_create == [cache |-> [i \in CacheIndex |-> ZeroEntry],
                    head |-> 0, count |-> 0]

InitDedup ==
    /\ dedup = wb_dedup_create
    /\ now = 0
    /\ last = [called |-> FALSE, hash |-> 0, freq |-> 0, now |-> 0,
               result |-> 0, nfwd |-> 0]
    /\ fwd_log = <<>>
    /\ nchecks = 0
    /\ burst = "before"
    /\ fillers = 0
    /\ nsuppressed = 0

\* A window test that never expires an entry.
InWindowAlways(e, t) == TRUE

\* if ((now - e->timestamp_us) > window) continue;
InWindow(e, t) == ~((t - e.timestamp_us) > WB_DEDUP_WINDOW_US)

\* fabsf(chan_freq_hz - e->freq) > MIN_FREQ_DIFF
FreqDiffers(e, f) == Abs(f - e.freq) > MIN_FREQ_DIFF

\* A scan that misses the newest slot in use.
ScanLimitShort(d) == d.count - 1

\* for (int i = 0; i < dedup->count; i++)
ScanLimit(d) == d.count

\* The search loop of wb_dedup_check from index i on: 1 as soon as an entry has
\* the hash, is within the window and differs in frequency; 0 at the end.
RECURSIVE Scan(_, _, _, _, _)
Scan(d, i, fp, f, t) ==
    IF ~(i < ScanLimit(d)) THEN 0
    ELSE LET e == d.cache[i] IN
         IF e.hash # fp THEN Scan(d, i + 1, fp, f, t)
         ELSE IF ~InWindow(e, t) THEN Scan(d, i + 1, fp, f, t)
         ELSE IF FreqDiffers(e, f) THEN 1
         ELSE Scan(d, i + 1, fp, f, t)

\* An insert that advances head without wrapping it.
InsertNoWrap(d, fp, f, t) ==
    [cache |-> [d.cache EXCEPT ![d.head] =
                   [hash |-> fp, freq |-> f, timestamp_us |-> t]],
     head |-> d.head + 1,
     count |-> IF d.count < WB_DEDUP_CACHE_SIZE THEN d.count + 1 ELSE d.count]

\* An insert that stops advancing head once the ring is full, so that it
\* overwrites the newest entry.
InsertOverNewest(d, fp, f, t) ==
    [cache |-> [d.cache EXCEPT ![d.head] =
                   [hash |-> fp, freq |-> f, timestamp_us |-> t]],
     head |-> IF d.count < WB_DEDUP_CACHE_SIZE
                THEN (d.head + 1) % WB_DEDUP_CACHE_SIZE ELSE d.head,
     count |-> IF d.count < WB_DEDUP_CACHE_SIZE THEN d.count + 1 ELSE d.count]

\* slot = &cache[head]; slot->... ; head = (head + 1) % SIZE;
\* if (count < SIZE) count++;
Insert(d, fp, f, t) ==
    [cache |-> [d.cache EXCEPT ![d.head] =
                   [hash |-> fp, freq |-> f, timestamp_us |-> t]],
     head |-> (d.head + 1) % WB_DEDUP_CACHE_SIZE,
     count |-> IF d.count < WB_DEDUP_CACHE_SIZE THEN d.count + 1 ELSE d.count]

\* int wb_dedup_check(dedup, data, chan_freq_hz) with fingerprint fp read at
\* clock value t: the result and the effect on the ring and the histories.
DoCheck(fp, f, t) ==
    LET r == Scan(dedup, 0, fp, f, t) IN
    /\ now' = t
    /\ last' = [called |-> TRUE, hash |-> fp, freq |-> f, now |-> t,
                result |-> r, nfwd |-> Len(fwd_log)]
    /\ nsuppressed' = nsuppressed + r
    /\ IF r = 1
         THEN UNCHANGED <<dedup, fwd_log>>
         ELSE /\ dedup' = Insert(dedup, fp, f, t)
              /\ fwd_log' = Append(fwd_log,
                                   [hash |-> fp, freq |-> f, timestamp_us |-> t])

\* A decode of any record on any channel, after any delay.
wb_dedup_check ==
    /\ UNCHANGED nonDedupVars
    /\ nchecks < MaxChecks
    /\ \E fp \in Hashes, f \in Freqs, dt \in TimeSteps :
         DoCheck(fp, f, now + dt)
    /\ nchecks' = nchecks + 1
    /\ burst' = IF burst = "in" THEN "after" ELSE burst
    /\ UNCHANGED fillers

\* if (!dedup || !data) return 0;
wb_dedup_check_null ==
    /\ UNCHANGED nonDedupVars
    /\ nchecks < MaxChecks
    /\ last' = [called |-> TRUE, hash |-> NullData, freq |-> FillerFreq,
                now |-> now, result |-> 0, nfwd |-> Len(fwd_log)]
    /\ nchecks' = nchecks + 1
    /\ burst' = IF burst = "in" THEN "after" ELSE burst
    /\ UNCHANGED <<dedup, now, fwd_log, fillers, nsuppressed>>

\* One decode of a burst of other traffic: the same check, on a record with
\* another fingerprint repeated on one channel.  The burst is contiguous and
\* long enough to fill the whole ring.
wb_dedup_check_filler ==
    /\ UNCHANGED nonDedupVars
    /\ burst \in {"before", "in"}
    /\ fillers < MaxFillers
    /\ DoCheck(FillerHash, FillerFreq, now)
    /\ fillers' = fillers + 1
    /\ burst' = "in"
    /\ UNCHANGED nchecks

NextDedup ==
    \/ wb_dedup_check
    \/ wb_dedup_check_null
    \/ wb_dedup_check_filler

(***************************************************************************)
(*                        UNSIGNED MACHINE WORDS                           *)
(* A uint32_t or size_t value is the sequence of its bytes, least          *)
(* significant first, so that values beyond 2^31 and wrap-around are       *)
(* computed as the machine computes them.                                  *)
(***************************************************************************)
RECURSIVE Pow2(_)
Pow2(i) == IF i = 0 THEN 1 ELSE 2 * Pow2(i - 1)

\* The n-byte word of a natural number v < 2^31.
Word(v, n) == [i \in 1..n |-> IF i <= 4 THEN (v \div Pow2(8 * (i - 1))) % 256 ELSE 0]

\* 2^k as an n-byte word, and the n-byte word whose low k bits are set
\* (2^k - 1).
WordPow2(k, n) == [i \in 1..n |-> IF i = (k \div 8) + 1 THEN Pow2(k % 8) ELSE 0]
WordOnes(k, n) ==
    [i \in 1..n |-> IF 8 * i <= k THEN 255
                    ELSE IF 8 * (i - 1) < k THEN Pow2(k - 8 * (i - 1)) - 1
                    ELSE 0]

\* Zero-extension to n bytes (a conversion to a wider unsigned type).
WordExt(x, n) == [i \in 1..n |-> IF i <= Len(x) THEN x[i] ELSE 0]

\* No zero test at all: a zero rate is treated as any other.
WordNeverZero(x) == FALSE

WordIsZero(x) == \A i \in 1..Len(x) : x[i] = 0

\* a < b for two words of the same width.
WordLess(a, b) ==
    \E i \in 1..Len(a) : /\ a[i] < b[i]
                         /\ \A j \in (i + 1)..Len(a) : a[j] = b[j]

\* The word of the column sums cols (cols[i] counts 256^(i-1)), modulo
\* 256^n: carries go up from byte i, the carry out of the top byte is lost.
RECURSIVE WordCarryFrom(_, _, _)
WordCarryFrom(cols, i, carry) ==
    IF i > Len(cols) THEN <<>>
    ELSE LET sum == cols[i] + carry
         IN <<sum % 256>> \o WordCarryFrom(cols, i + 1, sum \div 256)

\* a + b modulo 256^n.
WordAdd(a, b) == WordCarryFrom([i \in 1..Len(a) |-> a[i] + b[i]], 1, 0)

\* x * k modulo 256^n for an int k >= 0: the products of the bytes of x with
\* the four bytes of k, summed by column.
WordMul(x, k) ==
    LET kb == Word(k, 4)
    IN WordCarryFrom([c \in 1..Len(x) |->
                         (IF c >= 1 THEN x[c] * kb[1] ELSE 0)
                       + (IF c >= 2 THEN x[c - 1] * kb[2] ELSE 0)
                       + (IF c >= 3 THEN x[c - 2] * kb[3] ELSE 0)
                       + (IF c >= 4 THEN x[c - 3] * kb[4] ELSE 0)], 1, 0)

\* One step of long division by an int m > 0: st.rem < m is the remainder so
\* far, st.q the quotient bits so far.  2 * rem + bit >= m is tested, and the
\* difference taken, without forming 2 * rem + bit.
DivBit(st, bit, m) ==
    IF st.rem >= m - st.rem - bit
      THEN [rem |-> st.rem - (m - st.rem - bit), q |-> 2 * st.q + 1]
      ELSE [rem |-> 2 * st.rem + bit, q |-> 2 * st.q]

\* The eight steps of one byte, most significant bit first.
DivByte(rem, byte, m) ==
    LET s7 == DivBit([rem |-> rem, q |-> 0], (byte \div 128) % 2, m)
        s6 == DivBit(s7, (byte \div 64) % 2, m)
        s5 == DivBit(s6, (byte \div 32) % 2, m)
        s4 == DivBit(s5, (byte \div 16) % 2, m)
        s3 == DivBit(s4, (byte \div 8) % 2, m)
        s2 == DivBit(s3, (byte \div 4) % 2, m)
        s1 == DivBit(s2, (byte \div 2) % 2, m)
    IN DivBit(s1, byte % 2, m)

\* num / m and num % m for an int m > 0: long division from byte i down, rem
\* being the remainder of the bytes above; qm holds the quotient bytes, most
\* significant first.
RECURSIVE WordDivFrom(_, _, _, _)
WordDivFrom(num, m, i, rem) ==
    IF i = 0 THEN [qm |-> <<>>, r |-> rem]
    ELSE LET b == DivByte(rem, num[i], m)
             low == WordDivFrom(num, m, i - 1, b.rem)
         IN [qm |-> <<b.q>> \o low.qm, r |-> low.r]

WordDiv(num, m) ==
    LET n == Len(num)
        d == WordDivFrom(num, m, n, 0)
    IN [q |-> [i \in 1..n |-> d.qm[n + 1 - i]], r |-> d.r]

\* A word that is at most INT_MAX, and its value.
WordFitsInt(x) == /\ x[4] < 128
                  /\ \A i \in 5..Len(x) : x[i] = 0
WordVal(x) == x[1] + 256 * x[2] + 65536 * x[3] + 16777216 * x[4]

\* (int)x for a word of at least 4 bytes: the low 32 bits read as two's
\* complement.
IntCast(x) == x[1] + 256 * x[2] + 65536 * x[3]
              + 16777216 * (IF x[4] >= 128 THEN x[4] - 256 ELSE x[4])

(***************************************************************************)
(*                 RATIONAL RESAMPLER (cf32_resampler.c)                   *)
(***************************************************************************)
\* Arguments of cf32_resampler_init: decimation 5:4 and 2:1, interpolation
\* 4:5 and 1:2, each with a common factor for the GCD to remove, and equal
\* rates (no resampling).
ResRatePairs == {<<312500, 250000>>, <<250000, 312500>>,
                 <<500000, 250000>>, <<250000, 500000>>,
                 <<250000, 250000>>}
ResMaxInputs == {64}

\* Sizes of the input chunks of process: short ones, and one long enough to
\* take the write cursor around the history buffer.
ResChunks == (0..MaxChunk) \cup {RESAMPLER_HIST_MIN - 2}

\* sizeof(uint32_t), and sizeof(size_t) on the LP64 targets of the build.
UINT32_BYTES == 4
SIZE_BYTES == 8

\* Pointer fields are "null", "live" (allocated) or "dangling" (freed and not
\* reset); output_buf_size is a size_t.  hist holds the contents of hist_i / hist_q: one value per complex
\* sample, the two arrays being written and read at the same indices.
ZeroRes == [up_factor |-> 0, down_factor |-> 0, num_taps |-> 0,
            taps_per_branch |-> 0, phase_idx |-> 0,
            branches |-> "null", branch_data |-> "null",
            hist_i |-> "null", hist_q |-> "null", hist |-> <<>>,
            hist_size |-> 0, hist_mask |-> 0, write_pos |-> 0,
            output_buf |-> "null", output_buf_size |-> Word(0, SIZE_BYTES),
            initialized |-> 0]

\* int cf32_resampler_gcd(int a, int b)
RECURSIVE cf32_resampler_gcd(_, _)
cf32_resampler_gcd(a, b) == IF b # 0 THEN cf32_resampler_gcd(b, a % b) ELSE a

\* res->hist_size = 64; while (hist_size < taps_per_branch * 2) hist_size *= 2;
RECURSIVE HistSize(_, _)
HistSize(sz, taps) == IF sz < taps * 2 THEN HistSize(sz * 2, taps) ELSE sz

\* The allocations of cf32_resampler_init, in the order it makes them.
ResAllocs == <<"proto_coeffs", "branches", "branch_data", "hist_i", "hist_q",
               "output_buf">>

\* res->output_buf_size = (max_input_samples * (size_t)up / (size_t)down)
\*                        + (size_t)up + 1;   in size_t arithmetic.
OutputBufSize(max_input_samples, up, down) ==
    WordAdd(WordAdd(WordDiv(WordMul(max_input_samples, up), down).q,
                    Word(up, SIZE_BYTES)),
            Word(1, SIZE_BYTES))

\* SIZE_MAX / (2 * sizeof(float)) = 2^61 - 1.
SizeGuardLimit == WordOnes(8 * SIZE_BYTES - 3, SIZE_BYTES)

\* The labels fail_hist and fail_branches: free and reset the four pointers.
FailHist(r) == [r EXCEPT !.hist_i = "null", !.hist_q = "null", !.hist = <<>>,
                         !.branches = "null", !.branch_data = "null"]
FailBranches(r) == [r EXCEPT !.branches = "null", !.branch_data = "null"]

\* int cf32_resampler_init(res, input_rate, output_rate, max_input_samples):
\* [ret, err, res, heap] (err tells the failing checks apart).  The rates are uint32_t and max_input_samples a size_t
\* word; fail names the allocation that returns NULL ("none": all succeed);
\* heap is the set of blocks allocated by the call and not freed by it.
cf32_resampler_init(input_rate, output_rate, max_input_samples, fail) ==
    IF WordIsZero(input_rate) \/ WordIsZero(output_rate)
      THEN [ret |-> -1, err |-> "rate", res |-> ZeroRes, heap |-> {}]
    ELSE IF input_rate = output_rate
      THEN [ret |-> 0, err |-> "ok", res |-> ZeroRes, heap |-> {}]
    ELSE IF ~WordFitsInt(input_rate) \/ ~WordFitsInt(output_rate)
      THEN [ret |-> -1, err |-> "rate", res |-> ZeroRes, heap |-> {}]
    ELSE
      LET g == cf32_resampler_gcd(WordVal(output_rate), WordVal(input_rate))
          up == WordVal(output_rate) \div g
          down == WordVal(input_rate) \div g
          taps == RESAMPLER_TAPS_PER_BRANCH
          r1 == [ZeroRes EXCEPT !.up_factor = up, !.down_factor = down,
                                !.taps_per_branch = taps]
          r2 == [r1 EXCEPT !.num_taps = taps * up, !.phase_idx = 0]
          hsz == HistSize(RESAMPLER_HIST_MIN, taps)
          \* after the branches are filled and proto_coeffs is freed
          r3 == [r2 EXCEPT !.branches = "live", !.branch_data = "live",
                           !.hist_size = hsz, !.hist_mask = hsz - 1,
                           !.write_pos = 0]
          r4 == [r3 EXCEPT !.hist_i = "live"]
          r5 == [r4 EXCEPT !.hist_q = "live",
                           !.hist = [i \in 0..(hsz - 1) |-> 0],
                           !.output_buf_size =
                               OutputBufSize(max_input_samples, up, down)]
      IN
      IF up > INT_MAX \div taps
        THEN [ret |-> -1, err |-> "factor", res |-> r1, heap |-> {}]
      ELSE IF fail = "proto_coeffs"
        THEN [ret |-> -1, err |-> "alloc", res |-> r2, heap |-> {}]
      ELSE IF fail = "branches"
        THEN [ret |-> -1, err |-> "alloc", res |-> r2,
              heap |-> {"proto_coeffs"} \ {"proto_coeffs"}]
      ELSE IF fail = "branch_data"
        \* free(proto_coeffs); free(res->branches); return -1;
        THEN [ret |-> -1, err |-> "alloc", res |-> [r2 EXCEPT !.branches = "dangling"],
              heap |-> {"proto_coeffs", "branches"}
                         \ {"proto_coeffs", "branches"}]
      ELSE IF fail = "hist_i"
        THEN [ret |-> -1, err |-> "alloc", res |-> FailBranches(r3),
              heap |-> {"branches", "branch_data"}
                         \ {"branches", "branch_data"}]
      ELSE IF fail = "hist_q"
        THEN [ret |-> -1, err |-> "alloc", res |-> FailHist(r4),
              heap |-> {"branches", "branch_data", "hist_i"}
                         \ {"hist_i", "branches", "branch_data"}]
      ELSE IF WordLess(SizeGuardLimit, r5.output_buf_size)
                \/ fail = "output_buf"
        THEN [ret |-> -1,
              err |-> IF WordLess(SizeGuardLimit, r5.output_buf_size)
                        THEN "size" ELSE "alloc",
              res |-> FailHist(r5),
              heap |-> {"branches", "branch_data", "hist_i", "hist_q"}
                         \ {"hist_i", "hist_q", "branches", "branch_data"}]
      ELSE [ret |-> 0, err |-> "ok",
            res |-> [r5 EXCEPT !.output_buf = "live", !.initialized = 1],
            heap |-> {"branches", "branch_data", "hist_i", "hist_q",
                      "output_buf"}]

\* void cf32_resampler_free(res): [res, double_free, heap].  free() of a
\* dangling pointer releases a block a second time.
cf32_resampler_free(r, heap) ==
    LET ptrs == [branches |-> r.branches, branch_data |-> r.branch_data,
                 hist_i |-> r.hist_i, hist_q |-> r.hist_q,
                 output_buf |-> r.output_buf]
    IN [res |-> ZeroRes,
        double_free |-> \E f \in DOMAIN ptrs : ptrs[f] = "dangling",
        heap |-> heap \ {f \in DOMAIN ptrs : ptrs[f] = "live"}]

\* The input a call gets: samples number from + 1 .. from + num of the stream.
Samples(from, num) == [i \in 1..num |-> from + i]

\* x & hist_mask, hist_mask = hist_size - 1 with hist_size a power of two.
HistIndex(r, x) == x % r.hist_size

\* The FIR loop: taps_per_branch products hist[read_pos] * branch[k], read_pos
\* going down from base and wrapping.  The accumulated value is represented by
\* its operands: the branch and the samples read, in the order read.
Fir(r, hist, base, phase) ==
    [branch |-> phase,
     win |-> [k \in 1..r.taps_per_branch |-> hist[HistIndex(r, base - (k - 1))]]]

\* A process call that starts every call at phase 0.
PhaseRestart(r) == 0

\* int phase = res->phase_idx;
PhaseAtEntry(r) == r.phase_idx

\* The int indices inside output_buf are 0 .. OutIndexLimit - 1: the buffer
\* holds output_buf_size samples, and an int index stays below 2^31.
OutIndexLimit(r) ==
    IF WordFitsInt(r.output_buf_size) THEN WordVal(r.output_buf_size)
                                      ELSE INT_MAX

\* The phase is reset after every input sample instead of stepped back by L.
PhaseAfterSampleReset(r, phase) == 0

\* phase -= L;   after the outputs of one input sample.
PhaseAfterSample(r, phase) == phase - r.up_factor

\* while (phase < L && out_idx < max_output) { ... phase += M; }
\* st = [hist, write_pos, out_limit, phase, out, oob, trunc].
RECURSIVE EmitLoop(_, _, _, _)
EmitLoop(r, st, base, max_output) ==
    IF st.phase < r.up_factor /\ Len(st.out) < max_output
      THEN EmitLoop(r,
                    [st EXCEPT
                       !.out = Append(st.out, Fir(r, st.hist, base, st.phase)),
                       !.oob = st.oob \/ st.phase \notin 0..(r.up_factor - 1)
                                      \/ Len(st.out) \notin 0..(st.out_limit - 1),
                       !.phase = st.phase + r.down_factor],
                    base, max_output)
      ELSE [st EXCEPT !.trunc = st.trunc \/ st.phase < r.up_factor]

\* for (n = 0; n < num_iq_samples && out_idx < max_output; n++) { ... }
RECURSIVE SampleLoop(_, _, _, _, _)
SampleLoop(r, st, input, n, max_output) ==
    IF n < Len(input) /\ Len(st.out) < max_output
      THEN LET wr == HistIndex(r, st.write_pos)
               pushed == [st EXCEPT !.hist = [st.hist EXCEPT ![wr] = input[n + 1]],
                                    !.write_pos = st.write_pos + 1]
               base == HistIndex(r, pushed.write_pos - 1)
               e == EmitLoop(r, pushed, base, max_output)
           IN SampleLoop(r, [e EXCEPT !.phase = PhaseAfterSample(r, e.phase)],
                         input, n + 1, max_output)
      ELSE [st EXCEPT !.trunc = st.trunc \/ n < Len(input)]

\* int cf32_resampler_process(res, input, num_iq_samples, &output, max_output):
\* [res, out, oob, trunc]; the return value is Len(out) and *output is
\* res->output_buf.
cf32_resampler_process(r, input, max_output_arg) ==
    LET max_output == IF max_output_arg > IntCast(r.output_buf_size)
                        THEN IntCast(r.output_buf_size) ELSE max_output_arg
        st0 == [hist |-> r.hist, write_pos |-> r.write_pos,
                out_limit |-> OutIndexLimit(r),
                phase |-> PhaseAtEntry(r), out |-> <<>>,
                oob |-> FALSE, trunc |-> FALSE]
        st == SampleLoop(r, st0, input, 0, max_output)
    IN [res |-> [r EXCEPT !.hist = st.hist, !.write_pos = st.write_pos,
                          !.phase_idx = st.phase],
        out |-> st.out, oob |-> st.oob, trunc |-> st.trunc]

InitRes ==
    /\ res = ZeroRes
    /\ res_args = <<0, 0, 0>>
    /\ res_ret = 1
    /\ res_fed = 0
    /\ res_acc = <<>>
    /\ res_trunc = FALSE
    /\ res_oob = FALSE
    /\ res_last = [called |-> FALSE, num |-> 0, max_output |-> 0, n_out |-> 0]
    /\ res_calls = 0
    /\ res_crashed = FALSE

\* The owner initialises the resampler.
resampler_init ==
    /\ UNCHANGED nonResVars
    /\ res_ret = 1
    /\ \E rates \in ResRatePairs, max_in \in ResMaxInputs :
         LET i == cf32_resampler_init(Word(rates[1], UINT32_BYTES),
                                      Word(rates[2], UINT32_BYTES),
                                      Word(max_in, SIZE_BYTES), "none") IN
         /\ res' = i.res
         /\ res_ret' = i.ret
         /\ res_args' = <<rates[1], rates[2], max_in>>
    /\ UNCHANGED <<res_fed, res_acc, res_trunc, res_oob, res_last, res_calls,
                   res_crashed>>

\* One call of cf32_resampler_process on the next num samples of the stream,
\* on a handle cf32_resampler_init returned 0 for (the function does not look
\* at res->initialized).  A call that indexes outside an array has undefined
\* behaviour: it either kills the process or goes on with whatever it read.
resampler_process ==
    /\ UNCHANGED nonResVars
    /\ res_ret = 0
    /\ ~res_crashed
    /\ res_calls < MaxResCalls
    /\ \E num \in ResChunks,
          max_output \in {0, 1, IntCast(res.output_buf_size)} :
         LET p == cf32_resampler_process(res, Samples(res_fed, num), max_output) IN
         /\ num > MaxChunk => res_fed = 0
         /\ res' = p.res
         /\ res_fed' = res_fed + num
         /\ res_acc' = res_acc \o p.out
         /\ res_trunc' = (res_trunc \/ p.trunc)
         /\ res_oob' = (res_oob \/ p.oob)
         /\ res_last' = [called |-> TRUE, num |-> num, max_output |-> max_output,
                         n_out |-> Len(p.out)]
         /\ res_crashed' \in (IF p.oob THEN {TRUE, FALSE} ELSE {FALSE})
    /\ res_calls' = res_calls + 1
    /\ UNCHANGED <<res_args, res_ret>>

NextRes ==
    \/ resampler_init
    \/ resampler_process

(***************************************************************************)
(*        RESAMPLER CONSTRUCTION AND TEARDOWN (cf32_resampler.c)           *)
(***************************************************************************)
\* Rates given to cf32_resampler_init: 0, ordinary rates, two large primes,
\* INT_MAX, INT_MAX + 1 and UINT32_MAX.
InitRates == {Word(0, UINT32_BYTES), Word(250000, UINT32_BYTES),
              Word(312500, UINT32_BYTES), Word(300000007, UINT32_BYTES),
              Word(300000017, UINT32_BYTES), Word(INT_MAX, UINT32_BYTES),
              WordPow2(31, UINT32_BYTES), WordOnes(32, UINT32_BYTES)}

\* max_input_samples: ordinary sizes, 2^61, 2^62, SIZE_MAX / 2 and SIZE_MAX.
InitMaxInputs == {Word(64, SIZE_BYTES), Word(1000000, SIZE_BYTES),
                  WordPow2(61, SIZE_BYTES), WordPow2(62, SIZE_BYTES),
                  WordOnes(63, SIZE_BYTES), WordOnes(64, SIZE_BYTES)}

\* The allocation that fails during the call, if any.
InitFailures == {"none"} \cup {ResAllocs[i] : i \in 1..Len(ResAllocs)}

InitResInit ==
    /\ ri_pc = "fresh"
    /\ ri_args = <<Word(0, UINT32_BYTES), Word(0, UINT32_BYTES),
                   Word(0, SIZE_BYTES), "none">>
    /\ ri_ret = 0
    /\ ri_err = "ok"
    /\ ri_res = ZeroRes
    /\ ri_heap = {}
    /\ ri_double_free = FALSE

\* A call of cf32_resampler_init on a fresh handle.
resampler_init_call ==
    /\ UNCHANGED nonResInitVars
    /\ ri_pc = "fresh"
    /\ \E input_rate \in InitRates, output_rate \in InitRates,
          max_input_samples \in InitMaxInputs, fail \in InitFailures :
         LET i == cf32_resampler_init(input_rate, output_rate,
                                      max_input_samples, fail) IN
         /\ ri_args' = <<input_rate, output_rate, max_input_samples, fail>>
         /\ ri_ret' = i.ret
         /\ ri_err' = i.err
         /\ ri_res' = i.res
         /\ ri_heap' = i.heap
    /\ ri_pc' = "inited"
    /\ UNCHANGED ri_double_free

\* cf32_resampler_free on the handle, whatever init returned.
resampler_free_call ==
    /\ UNCHANGED nonResInitVars
    /\ ri_pc = "inited"
    /\ LET f == cf32_resampler_free(ri_res, ri_heap) IN
       /\ ri_res' = f.res
       /\ ri_heap' = f.heap
       /\ ri_double_free' = f.double_free
    /\ ri_pc' = "freed"
    /\ UNCHANGED <<ri_args, ri_ret, ri_err>>

NextResInit ==
    \/ resampler_init_call
    \/ resampler_free_call

(***************************************************************************)
(*               PFB CHANNELIZER HOT PATH (channelizer.c)                  *)
(***************************************************************************)
\* Arguments of channelizer_init in this specification.
ChanNumChannels == {1, 2, 4, 8, 12, 32}
ChanInputRates == {0, 2000000}
ChanMaxInputs == {2, 1024}

\* #define TAPS_PER_BRANCH (2 * FILTER_SEMI_LEN)
TAPS_PER_BRANCH == 2 * FILTER_SEMI_LEN

\* A channelizer with decimation M (critically sampled).
DecimationCritical(M) == M

\* ch->decimation_factor = M / 2;
DecimationFactor(M) == M \div 2

ZeroChan == [initialized |-> 0, num_channels |-> 0, taps_per_branch |-> 0,
             decimation_factor |-> 0, window_len |-> 0, window_alloc |-> 0,
             channel_mask |-> 0, filter_index |-> 0,
             window_write_pos |-> <<>>, window |-> <<>>,
             output_buf_size |-> 0, fft_plan |-> 0]

\* The state channelizer_init builds once the gate is passed and every
\* allocation has succeeded.
ChanBuilt(M, max_input) ==
    LET p == 2 * FILTER_SEMI_LEN
        D == DecimationFactor(M)
        sz == (max_input \div D) + 1
    IN [initialized |-> 1, num_channels |-> M, taps_per_branch |-> p,
        decimation_factor |-> D, window_len |-> p, window_alloc |-> 2 * p,
        channel_mask |-> M - 1, filter_index |-> M - 1,
        window_write_pos |-> [i \in 0..(M - 1) |-> p],
        window |-> [i \in 0..(M - 1) |-> [j \in 0..(2 * p - 1) |-> 0]],
        output_buf_size |-> IF sz < 2 THEN 2 ELSE sz,
        fft_plan |-> M]

\* x & ch->channel_mask, channel_mask = M - 1 with M a power of two.
MaskIndex(c, x) == x % (c.channel_mask + 1)

\* A push that wraps one sample late: pos > w_alloc instead of pos >= w_alloc.
CommutatorPushLateWrap(c, x) ==
    LET idx == c.filter_index
        pos == c.window_write_pos[idx]
        stored == [c.window[idx] EXCEPT ![pos] = x]
        wrap == (pos + 1) > c.window_alloc
        moved == [j \in 0..(c.window_alloc - 1) |->
                     IF j < c.window_len THEN stored[j + c.window_len]
                                         ELSE stored[j]]
    IN [c EXCEPT !.window[idx] = IF wrap THEN moved ELSE stored,
                 !.window_write_pos[idx] = IF wrap THEN c.window_len ELSE pos + 1,
                 !.filter_index = MaskIndex(c, idx + c.num_channels - 1)]

\* A push that steps the branch index forward: (idx + 1) & mask.
CommutatorPushForward(c, x) ==
    LET idx == c.filter_index
        pos == c.window_write_pos[idx]
        stored == [c.window[idx] EXCEPT ![pos] = x]
        wrap == (pos + 1) >= c.window_alloc
        moved == [j \in 0..(c.window_alloc - 1) |->
                     IF j < c.window_len THEN stored[j + c.window_len]
                                         ELSE stored[j]]
    IN [c EXCEPT !.window[idx] = IF wrap THEN moved ELSE stored,
                 !.window_write_pos[idx] = IF wrap THEN c.window_len ELSE pos + 1,
                 !.filter_index = MaskIndex(c, idx + 1)]

\* A push that resets the cursor at the wrap without moving the upper half of
\* the window down.
CommutatorPushNoShift(c, x) ==
    LET idx == c.filter_index
        pos == c.window_write_pos[idx]
        stored == [c.window[idx] EXCEPT ![pos] = x]
        wrap == (pos + 1) >= c.window_alloc
    IN [c EXCEPT !.window[idx] = stored,
                 !.window_write_pos[idx] = IF wrap THEN c.window_len ELSE pos + 1,
                 !.filter_index = MaskIndex(c, idx + c.num_channels - 1)]

\* The body of the commutator loop for one input sample x: store it at the
\* write cursor of branch filter_index, advance the cursor, move the upper half
\* of the window down when the cursor reaches window_alloc, step the index.
CommutatorPush(c, x) ==
    LET idx == c.filter_index
        pos == c.window_write_pos[idx]
        stored == [c.window[idx] EXCEPT ![pos] = x]
        wrap == (pos + 1) >= c.window_alloc
        moved == [j \in 0..(c.window_alloc - 1) |->
                     IF j < c.window_len THEN stored[j + c.window_len]
                                         ELSE stored[j]]
    IN [c EXCEPT !.window[idx] = IF wrap THEN moved ELSE stored,
                 !.window_write_pos[idx] = IF wrap THEN c.window_len ELSE pos + 1,
                 !.filter_index = MaskIndex(c, idx + c.num_channels - 1)]

\* for (i = 0; i < D; i++) push input[s + i]
RECURSIVE PushBlock(_, _, _, _)
PushBlock(c, input, s, i) ==
    IF i < c.decimation_factor
      THEN PushBlock(CommutatorPush(c, input[s + i + 1]), input, s, i + 1)
      ELSE c

\* dotprod_linear(win[index] + start, ..., branches[i], TAPS_PER_BRANCH, ...):
\* represented by its operands, the branch and the samples in the order read.
DotProd(c, index, start, i) ==
    [branch |-> i,
     win |-> [k \in 1..TAPS_PER_BRANCH |-> c.window[index][start + k - 1]]]

\* The dot-product loop: fft_in[M - i - 1] for i = 0..M-1, read from branch
\* (i + filter_index + 1) & mask at write_pos - TAPS_PER_BRANCH.
FftInput(c) ==
    [out_idx \in 0..(c.num_channels - 1) |->
        LET i == c.num_channels - 1 - out_idx
            index == MaskIndex(c, i + c.filter_index + 1)
            start == c.window_write_pos[index] - TAPS_PER_BRANCH
        IN DotProd(c, index, start, i)]

\* float sign = 1.0f - 2.0f * (float)((c & output_idx) & 1);
PhaseSign(k, output_idx) == 1 - 2 * ((k % 2) * (output_idx % 2))

\* One output of channel k: sign * (bin k of the M-point forward FFT of x).
\* A frame holds the FFT input and the sign applied to each channel.
ChannelSample(frame, k) == [sign |-> frame.sign[k], bin |-> k, x |-> frame.fft_in]

\* A block loop that stops one block early.
BlockFitsStrict(s, D, n_samples) == s + D < n_samples

\* for (s = 0; s + D <= n_samples; s += D)
BlockFits(s, D, n_samples) == s + D <= n_samples

\* The block loop of channelizer_process from sample offset s on; out is the
\* sequence of frames stored so far (output_idx = Len(out)).
RECURSIVE BlockLoop(_, _, _, _, _)
BlockLoop(c, input, n_samples, s, out) ==
    IF BlockFits(s, c.decimation_factor, n_samples)
      THEN LET c1 == PushBlock(c, input, s, 0)
               output_idx == Len(out)
               frame == [fft_in |-> FftInput(c1),
                         sign |-> [k \in 0..(c.num_channels - 1) |->
                                      PhaseSign(k, output_idx)]]
           IN BlockLoop(c1, input, n_samples, s + c.decimation_factor,
                        IF output_idx < c.output_buf_size
                          THEN Append(out, frame) ELSE out)
      ELSE [ch |-> c, out |-> out]

\* An argument check that lets a null input pointer through.
ProcessRejectsNoNull(c, null_input, n_samples) ==
    c.initialized = 0 \/ n_samples < 0

\* if (!ch->initialized || !input || n_samples < 0) return -1;
ProcessRejects(c, null_input, n_samples) ==
    c.initialized = 0 \/ null_input \/ n_samples < 0

\* int channelizer_process(ch, input, n_samples, channel_out, out_samples):
\* [ret, ch, out]; *out_samples is Len(out).  input is the sequence of samples,
\* null_input tells a null pointer.
\* out_set tells whether *out_samples was assigned.
channelizer_process(c, null_input, input, n_samples) ==
    IF ProcessRejects(c, null_input, n_samples)
      THEN [ret |-> -1, ch |-> c, out |-> <<>>, out_set |-> FALSE]
    ELSE IF n_samples = 0
      THEN [ret |-> 0, ch |-> c, out |-> <<>>, out_set |-> TRUE]
    ELSE LET b == BlockLoop(c, input, n_samples, 0, <<>>) IN
         [ret |-> 0, ch |-> b.ch, out |-> b.out, out_set |-> TRUE]

\* void channelizer_free(ch): every buffer released, the handle zeroed.
channelizer_free(c) == ZeroChan

\* The output the caller sees after a call: *out_samples when it was assigned,
\* and the output buffers with the frames of this call written from index 0.
\* A frame in the buffers is named by its position in the history ch_acc of
\* all frames produced; base is the length of that history before the call.
CallerOutput(old, p, base) ==
    [out_samples |-> IF p.out_set THEN Len(p.out) ELSE old.out_samples,
     slots |-> [j \in 1..Len(p.out) |-> base + j]
                   \o SubSeq(old.slots, Len(p.out) + 1, Len(old.slots))]

InitChan ==
    /\ ch = ZeroChan
    /\ ch_args = <<0, 0, 0>>
    /\ ch_fed = 0
    /\ ch_acc = <<>>
    /\ ch_log = <<>>
    /\ ch_init_call = [called |-> FALSE, num_channels |-> 0, input_rate |-> 0,
                       ret |-> 0]
    /\ ch_out = [out_samples |-> 0, slots |-> <<>>]

\* channelizer_init called by the producer thread alone: the whole function in
\* one step, the gate included (no other thread runs in this specification, so
\* the CAS succeeds exactly when the state is NOT_STARTED and the spin loop
\* never waits).
chan_init ==
    /\ UNCHANGED nonChanVars
    /\ ch.initialized = 0
    /\ ch_args = <<0, 0, 0>>
    /\ \E nc \in ChanNumChannels, rate \in ChanInputRates,
          max_input \in ChanMaxInputs,
          alloc_ok \in BOOLEAN, lfft_ok \in BOOLEAN :
         LET a == [num_channels |-> nc, input_rate |-> rate]
             call(rc) == [called |-> TRUE, num_channels |-> nc,
                          input_rate |-> rate, ret |-> rc]
         IN
         IF ~ParamsValid(a) \/ ~alloc_ok
           THEN /\ ch' = ZeroChan
                /\ ch_init_call' = call(-1)
                /\ UNCHANGED <<ch_args, hlfft_init_state, g_initialized>>
         ELSE IF hlfft_init_state = INIT_NOT_STARTED
           THEN IF lfft_ok
                  THEN /\ g_initialized' = 1
                       /\ hlfft_init_state' = INIT_DONE
                       /\ ch' = ChanBuilt(nc, max_input)
                       /\ ch_init_call' = call(0)
                       /\ ch_args' = <<nc, rate, max_input>>
                  ELSE /\ hlfft_init_state' = INIT_FAILED
                       /\ ch' = channelizer_free(ch)
                       /\ ch_init_call' = call(-1)
                       /\ UNCHANGED <<ch_args, g_initialized>>
         ELSE IF hlfft_init_state # INIT_DONE
           THEN /\ ch' = channelizer_free(ch)
                /\ ch_init_call' = call(-1)
                /\ UNCHANGED <<ch_args, hlfft_init_state, g_initialized>>
         ELSE /\ ch' = ChanBuilt(nc, max_input)
              /\ ch_init_call' = call(0)
              /\ ch_args' = <<nc, rate, max_input>>
              /\ UNCHANGED <<hlfft_init_state, g_initialized>>
    /\ UNCHANGED <<ch_fed, ch_acc, ch_log, ch_out>>

\* Lengths of the inputs of process: whole blocks of D samples, and whole
\* blocks plus one sample.
ChanChunks(D) == {k * D + r : k \in 0..MaxBlocks, r \in {0, 1}}

\* One call of channelizer_process on the next n samples of the stream.
chan_process ==
    /\ UNCHANGED nonChanVars
    /\ UNCHANGED <<hlfft_init_state, g_initialized>>
    /\ ch.initialized = 1
    /\ Len(ch_log) < MaxChanCalls
    /\ \E n \in ChanChunks(ch.decimation_factor) :
         LET p == channelizer_process(ch, FALSE, Samples(ch_fed, n), n) IN
         /\ ch' = p.ch
         /\ ch_fed' = ch_fed + n
         /\ ch_acc' = ch_acc \o p.out
         /\ ch_out' = CallerOutput(ch_out, p, Len(ch_acc))
         /\ ch_log' = Append(ch_log, [n |-> n, null_input |-> FALSE,
                                      ret |-> p.ret,
                                      out_samples |-> Len(p.out)])
    /\ UNCHANGED <<ch_args, ch_init_call>>

\* <<input is null, n_samples>> of the calls made to be turned away: a null
\* input with no sample and with one, a negative count, and a well-formed
\* call (turned away on a handle that is not initialised only).
RejectedCalls == {<<TRUE, 0>>, <<TRUE, 1>>, <<FALSE, -1>>, <<FALSE, 1>>}

\* A call the argument check turns away: a null input pointer, a negative
\* sample count, or any call on a handle that is not initialised (its init
\* failed or it was freed).
chan_process_rejected ==
    /\ UNCHANGED nonChanVars
    /\ UNCHANGED <<hlfft_init_state, g_initialized>>
    /\ Len(ch_log) < MaxChanCalls
    /\ \E call \in RejectedCalls :
         LET null_input == call[1]
             n == call[2]
         IN
         /\ (ch.initialized = 0 \/ null_input \/ n < 0)
         /\ LET p == channelizer_process(ch, null_input,
                                         Samples(ch_fed, IF n > 0 THEN n ELSE 0),
                                         n) IN
            /\ ch' = p.ch
            /\ ch_acc' = ch_acc \o p.out
            /\ ch_out' = CallerOutput(ch_out, p, Len(ch_acc))
            /\ ch_log' = Append(ch_log, [n |-> n, null_input |-> null_input,
                                         ret |-> p.ret,
                                         out_samples |-> Len(p.out)])
    /\ UNCHANGED <<ch_args, ch_fed, ch_init_call>>

\* channelizer_free on an initialised handle, while process calls remain to be
\* made on it; the output buffers go with it.
chan_free ==
    /\ UNCHANGED nonChanVars
    /\ UNCHANGED <<hlfft_init_state, g_initialized>>
    /\ ch.initialized = 1
    /\ Len(ch_log) < MaxChanCalls
    /\ ch' = channelizer_free(ch)
    /\ ch_out' = [ch_out EXCEPT !.slots = <<>>]
    /\ UNCHANGED <<ch_args, ch_fed, ch_acc, ch_log, ch_init_call>>

NextChan ==
    \/ chan_init
    \/ chan_process
    \/ chan_process_rejected
    \/ chan_free

(***************************************************************************)
(*        ACQUISITION LOOP AND CANCELLATION (sdr.c, rtl_tcp input)         *)
(***************************************************************************)
\* Counters of the history saturate at MaxReads.
CountUp(c) == IF c < MaxReads THEN c + 1 ELSE c

\* The flag is never seen: the local copy is always 0.
ReadExitAcquireStale(flag) == 0

\* int exit_acquire = dev->exit_acquire;   (read with dev->lock held)
ReadExitAcquire(flag) == flag

\* The local copy is not acted on.
ExitIgnored(local) == FALSE

\* if (exit_acquire) break;
ExitObserved(local) == local # 0

InitSdr ==
    /\ sdr_lock = "none"
    /\ exit_acquire = 0
    /\ running = 0
    /\ running_stale = <<>>
    /\ acq_pc = "enter"
    /\ acq_n_read = 0
    /\ acq_exit = 0
    /\ own_pc = "run"
    /\ stop_calls = 0
    /\ sdr_reads = 0
    /\ reads_after_stop = 0
    /\ acq_checked = FALSE
    /\ acq_seen_exit = FALSE
    /\ cb_calls = 0
    /\ cb_unchecked = FALSE
    /\ cb_after_seen = FALSE

\* rtltcp_read_loop up to "dev->running = 1": the buffer is allocated; a
\* failed malloc returns -1 before the loop.
rtltcp_enter ==
    /\ UNCHANGED nonSdrVars
    /\ acq_pc = "enter"
    /\ \E alloc_ok \in BOOLEAN :
         IF alloc_ok
           THEN /\ running' = 1
                /\ running_stale' = <<>>
                /\ acq_pc' = "recv"
           ELSE /\ acq_pc' = "done"
                /\ UNCHANGED <<running, running_stale>>
    /\ UNCHANGED <<sdr_lock, exit_acquire, acq_n_read, acq_exit, own_pc,
                   stop_calls, sdr_reads, reads_after_stop, acq_checked,
                   acq_seen_exit, cb_calls, cb_unchecked, cb_after_seen>>

\* The recv loop of one iteration returns: a buffer (n_read > 0) or nothing
\* (n_read = 0: the connection is gone, and dev->running = 0).
rtltcp_recv ==
    /\ UNCHANGED nonSdrVars
    /\ acq_pc = "recv"
    /\ \E n_read \in {0, 1} :
         /\ acq_n_read' = n_read
         /\ IF n_read = 0
              THEN running' = 0 /\ running_stale' = <<>>
              ELSE UNCHANGED <<running, running_stale>>
    /\ sdr_reads' = CountUp(sdr_reads)
    /\ reads_after_stop' = IF exit_acquire = 1 THEN CountUp(reads_after_stop)
                                               ELSE reads_after_stop
    /\ acq_checked' = FALSE
    /\ acq_pc' = "lock_rate"
    /\ UNCHANGED <<sdr_lock, exit_acquire, acq_exit, own_pc, stop_calls,
                   acq_seen_exit, cb_calls, cb_unchecked, cb_after_seen>>

\* pthread_mutex_lock(&dev->lock) before reading sample_rate and
\* center_frequency.  Taking the lock makes the owner's writes visible.
rtltcp_lock_rate ==
    /\ UNCHANGED nonSdrVars
    /\ acq_pc = "lock_rate"
    /\ sdr_lock = "none"
    /\ sdr_lock' = "acq"
    /\ running_stale' = <<>>
    /\ acq_pc' = "unlock_rate"
    /\ UNCHANGED <<exit_acquire, running, acq_n_read, acq_exit, own_pc,
                   stop_calls, sdr_reads, reads_after_stop, acq_checked,
                   acq_seen_exit, cb_calls, cb_unchecked, cb_after_seen>>

rtltcp_unlock_rate ==
    /\ UNCHANGED nonSdrVars
    /\ acq_pc = "unlock_rate"
    /\ sdr_lock' = "none"
    /\ acq_pc' = "lock_flag"
    /\ UNCHANGED <<exit_acquire, running, running_stale, acq_n_read, acq_exit,
                   own_pc, stop_calls, sdr_reads, reads_after_stop,
                   acq_checked, acq_seen_exit, cb_calls, cb_unchecked,
                   cb_after_seen>>

\* pthread_mutex_lock(&dev->lock) before reading the flag.
rtltcp_lock_flag ==
    /\ UNCHANGED nonSdrVars
    /\ acq_pc = "lock_flag"
    /\ sdr_lock = "none"
    /\ sdr_lock' = "acq"
    /\ running_stale' = <<>>
    /\ acq_pc' = "read_flag"
    /\ UNCHANGED <<exit_acquire, running, acq_n_read, acq_exit, own_pc,
                   stop_calls, sdr_reads, reads_after_stop, acq_checked,
                   acq_seen_exit, cb_calls, cb_unchecked, cb_after_seen>>

\* int exit_acquire = dev->exit_acquire; pthread_mutex_unlock(&dev->lock);
rtltcp_read_flag ==
    /\ UNCHANGED nonSdrVars
    /\ acq_pc = "read_flag"
    /\ acq_exit' = ReadExitAcquire(exit_acquire)
    /\ acq_checked' = (sdr_lock = "acq")
    /\ acq_seen_exit' = (acq_seen_exit \/ ReadExitAcquire(exit_acquire) # 0)
    /\ sdr_lock' = "none"
    /\ acq_pc' = "deliver"
    /\ UNCHANGED <<exit_acquire, running, running_stale, acq_n_read, own_pc,
                   stop_calls, sdr_reads, reads_after_stop, cb_calls,
                   cb_unchecked, cb_after_seen>>

\* if (exit_acquire) break;   if (n_read > 0) cb(&ev, ctx);
rtltcp_deliver ==
    /\ UNCHANGED nonSdrVars
    /\ acq_pc = "deliver"
    /\ IF ExitObserved(acq_exit)
         THEN /\ acq_pc' = "done"
              /\ UNCHANGED <<cb_calls, cb_unchecked, cb_after_seen>>
         ELSE /\ acq_pc' = "while"
              /\ IF acq_n_read > 0
                   THEN /\ cb_calls' = CountUp(cb_calls)
                        /\ cb_unchecked' = (cb_unchecked \/ ~acq_checked)
                        /\ cb_after_seen' = (cb_after_seen \/ acq_seen_exit)
                   ELSE UNCHANGED <<cb_calls, cb_unchecked, cb_after_seen>>
    /\ UNCHANGED <<sdr_lock, exit_acquire, running, running_stale, acq_n_read,
                   acq_exit, own_pc, stop_calls, sdr_reads, reads_after_stop,
                   acq_checked, acq_seen_exit>>

\* } while (dev->running);   read without the lock: after sdr_stop has
\* written it concurrently the thread reads the new or the overwritten value.
rtltcp_while ==
    /\ UNCHANGED nonSdrVars
    /\ acq_pc = "while"
    /\ \E seen \in {running} \cup {running_stale[i] : i \in 1..Len(running_stale)} :
         acq_pc' = IF seen # 0 THEN "recv" ELSE "done"
    /\ UNCHANGED <<sdr_lock, exit_acquire, running, running_stale, acq_n_read,
                   acq_exit, own_pc, stop_calls, sdr_reads, reads_after_stop,
                   acq_checked, acq_seen_exit, cb_calls, cb_unchecked,
                   cb_after_seen>>

\* The owning thread calls sdr_stop: pthread_mutex_lock(&dev->lock).
sdr_stop_lock ==
    /\ UNCHANGED nonSdrVars
    /\ own_pc = "run"
    /\ stop_calls < MaxStopCalls
    /\ sdr_lock = "none"
    /\ sdr_lock' = "owner"
    /\ stop_calls' = stop_calls + 1
    /\ own_pc' = "stop_locked"
    /\ UNCHANGED <<exit_acquire, running, running_stale, acq_pc, acq_n_read,
                   acq_exit, sdr_reads, reads_after_stop, acq_checked,
                   acq_seen_exit, cb_calls, cb_unchecked, cb_after_seen>>

\* if (dev->exit_acquire) { unlock; return 0; }
\* dev->exit_acquire = 1; sdr_stop_sync(dev) (dev->running = 0); unlock.
sdr_stop_set ==
    /\ UNCHANGED nonSdrVars
    /\ own_pc = "stop_locked"
    /\ IF exit_acquire # 0
         THEN /\ own_pc' = "run"
              /\ UNCHANGED <<exit_acquire, running, running_stale>>
         ELSE /\ exit_acquire' = 1
              /\ running' = 0
              /\ running_stale' = <<running>>
              /\ own_pc' = "join"
    /\ sdr_lock' = "none"
    /\ UNCHANGED <<acq_pc, acq_n_read, acq_exit, stop_calls, sdr_reads,
                   reads_after_stop, acq_checked, acq_seen_exit, cb_calls,
                   cb_unchecked, cb_after_seen>>

\* pthread_join(dev->thread, NULL) returns once the acquisition thread ended.
sdr_stop_join ==
    /\ UNCHANGED nonSdrVars
    /\ own_pc = "join"
    /\ acq_pc = "done"
    /\ own_pc' = "run"
    /\ UNCHANGED <<sdr_lock, exit_acquire, running, running_stale, acq_pc,
                   acq_n_read, acq_exit, stop_calls, sdr_reads,
                   reads_after_stop, acq_checked, acq_seen_exit, cb_calls,
                   cb_unchecked, cb_after_seen>>

AcquireStep ==
    \/ rtltcp_enter
    \/ rtltcp_recv
    \/ rtltcp_lock_rate
    \/ rtltcp_unlock_rate
    \/ rtltcp_lock_flag
    \/ rtltcp_read_flag
    \/ rtltcp_deliver
    \/ rtltcp_while

OwnerStep ==
    \/ sdr_stop_lock
    \/ sdr_stop_set
    \/ sdr_stop_join

NextSdr ==
    \/ AcquireStep
    \/ OwnerStep

(***************************************************************************)
(*        FFT PLANS AND TRANSFORMS (hydrasdr_lfft.c, stockham_scalar.c)    *)
(*                                                                         *)
(* A complex value is kept exactly, as a sum of input samples each times a *)
(* power of W_n = exp(-2 pi i / n): the set of pairs <<tag, e>> stands for *)
(* the sum of x[tag] * W_n^e.  Rounding of the float arithmetic is left    *)
(* out.                                                                    *)
(***************************************************************************)
\* log2_size(n): the least k with 2^k >= n.
RECURSIVE Log2From(_, _)
Log2From(n, k) == IF Pow2(k) < n THEN Log2From(n, k + 1) ELSE k
log2_size(n) == Log2From(n, 0)

\* value * W_n^t
Rot(v, t, n) == {<<p[1], (p[2] + t) % n>> : p \in v}
CAdd(a, b) == a \cup b
CSub(a, b, n) == a \cup Rot(b, n \div 2, n)
\* value * (-i) in the place of value * i.
CMulIConj(a, n) == Rot(a, n \div 4, n)

\* value * i, with i = W_n^(3n/4)
CMulI(a, n) == Rot(a, 3 * (n \div 4), n)

\* Contents of a buffer nothing has been written to.
UNINIT == {<<(<<-1, 0>>), 0>>}
FreshBuffer(n) == [i \in 0..(n - 1) |-> UNINIT]

NullPlan == [null |-> TRUE, n |-> 0, log2n |-> 0, log4n |-> 0,
             has_radix2_stage |-> FALSE, tw |-> <<>>,
             work |-> <<>>, work2 |-> <<>>]

\* compute_twiddles: tw[s][j] = W_n^(j * 4^s) for j < (n >> 2s) / 4, kept
\* as the exponent.  Stage s is element s + 1 of the sequence.
Twiddles(n, log4n) ==
    [s1 \in 1..log4n |->
        LET s == s1 - 1
            quarter_m == (n \div Pow2(2 * s)) \div 4
            stride == Pow2(2 * s)
        IN [j \in 0..(quarter_m - 1) |-> (j * stride) % n]]

\* scalar_plan_create(n): NULL for a size that is no power of two or below
\* SFFT_MIN_SIZE, and when an allocation fails.
scalar_plan_create(n, alloc_ok) ==
    IF ~is_power_of_2(n) \/ n < SFFT_MIN_SIZE \/ ~alloc_ok THEN NullPlan
    ELSE LET log2n == log2_size(n) IN
         [null |-> FALSE, n |-> n, log2n |-> log2n, log4n |-> log2n \div 2,
          has_radix2_stage |-> (log2n % 2 # 0),
          tw |-> Twiddles(n, log2n \div 2),
          work |-> FreshBuffer(n), work2 |-> FreshBuffer(n)]

\* hlfft_plan_create(n, config).
hlfft_plan_create(n, alloc_ok) ==
    IF ~hlfft_size_valid(n) THEN NullPlan
    ELSE scalar_plan_create(n, alloc_ok)

\* RADIX4_BUTTERFLY_OTF: output q of the butterfly of a0..a3 with twiddle w1
\* (W2 = W1 * W1 and W3 = W2 * W1 are computed on the fly).
Radix4Butterfly(q, a0, a1, a2, a3, w1, n) ==
    LET w2 == (w1 + w1) % n
        w3 == (w2 + w1) % n
        t0 == CAdd(a0, a2)
        t1 == CSub(a0, a2, n)
        t2 == CAdd(a1, a3)
        t3 == CSub(a1, a3, n)
    IN CASE q = 0 -> CAdd(t0, t2)
         [] q = 1 -> Rot(CSub(t1, CMulI(t3, n), n), w1, n)
         [] q = 2 -> Rot(CSub(t0, t2, n), w2, n)
         [] q = 3 -> Rot(CAdd(t1, CMulI(t3, n)), w3, n)

\* stockham_radix4_otf_scalar(src, dst, tw, n, stage): the dst it writes.
stockham_radix4_otf_scalar(src, tw, n, stage) ==
    LET quarter_n == n \div 4
        m == n \div Pow2(2 * stage)
        quarter_m == m \div 4
    IN [idx \in 0..(n - 1) |->
          LET q == idx \div quarter_n
              b == (idx % quarter_n) \div quarter_m
              j == (idx % quarter_n) % quarter_m
              base == b * m + j
          IN Radix4Butterfly(q, src[base], src[base + quarter_m],
                             src[base + 2 * quarter_m],
                             src[base + 3 * quarter_m], tw[j], n)]

\* stockham_radix2_last_scalar(src, dst, n): the dst it writes.
stockham_radix2_last_scalar(src, n) ==
    LET half_n == n \div 2 IN
    [idx \in 0..(n - 1) |->
        IF idx < half_n THEN CAdd(src[2 * idx], src[2 * idx + 1])
        ELSE CSub(src[2 * (idx - half_n)], src[2 * (idx - half_n) + 1], n)]

\* The radix-4 stages first..(log4n - 1) of a transform, ping-ponging between
\* two buffers: st = [src, dst] holds the two buffers' contents.
RECURSIVE Radix4Stages(_, _, _)
Radix4Stages(plan, st, s) ==
    IF s >= plan.log4n THEN st
    ELSE LET out == stockham_radix4_otf_scalar(st.src, plan.tw[s + 1],
                                               plan.n, s)
         IN Radix4Stages(plan,
                         [src |-> out, dst |-> st.src,
                          src_is_a |-> ~st.src_is_a], s + 1)

\* scalar_forward(plan, input, output): [out, plan].  The input is copied
\* to plan->work (aos_to_soa), the stages ping-pong between plan->work and
\* plan->work2, and the last buffer written is copied out (soa_to_aos).
scalar_forward(plan, input) ==
    LET st0 == [src |-> input, dst |-> plan.work2, src_is_a |-> TRUE]
        st == Radix4Stages(plan, st0, 0)
        \* src_is_a: src is work (and dst is work2)
        fin == IF plan.has_radix2_stage
                  THEN [src |-> stockham_radix2_last_scalar(st.src, plan.n),
                        dst |-> st.src, src_is_a |-> ~st.src_is_a]
                  ELSE st
    IN [out |-> fin.src,
        plan |-> [plan EXCEPT
                    !.work = IF fin.src_is_a THEN fin.src ELSE fin.dst,
                    !.work2 = IF fin.src_is_a THEN fin.dst ELSE fin.src]]

\* scalar_forward_split(plan, in, out): [out, plan].  The output buffer is
\* one of the two ping-pong buffers and plan->work the other, arranged so
\* that the fin stage writes the output.
scalar_forward_split(plan, input) ==
    LET n == plan.n
        total_stages == plan.log4n + (IF plan.has_radix2_stage THEN 1 ELSE 0)
    IN
    IF plan.log4n = 0
      THEN [out |-> IF plan.has_radix2_stage
                      THEN stockham_radix2_last_scalar(input, n)
                      ELSE FreshBuffer(n),
            plan |-> plan]
    ELSE
      LET buf0 == stockham_radix4_otf_scalar(input, plan.tw[1], n, 0)
          \* src_is_a: src is buf0
          st0 == [src |-> buf0,
                  dst |-> IF total_stages % 2 = 1 THEN plan.work
                                                  ELSE FreshBuffer(n),
                  src_is_a |-> TRUE]
          st == Radix4Stages(plan, st0, 1)
          fin == IF plan.has_radix2_stage
                    THEN [src |-> stockham_radix2_last_scalar(st.src, n),
                          dst |-> st.src, src_is_a |-> ~st.src_is_a]
                    ELSE st
          final0 == IF fin.src_is_a THEN fin.src ELSE fin.dst
          final1 == IF fin.src_is_a THEN fin.dst ELSE fin.src
      IN IF total_stages % 2 = 1
           THEN [out |-> final0, plan |-> [plan EXCEPT !.work = final1]]
           ELSE [out |-> final1, plan |-> [plan EXCEPT !.work = final0]]

\* The inputs of a transform of size n: n unrelated samples, or a single
\* sample at position p and zeros elsewhere.
FftInputs(t, n) ==
    {[j \in 0..(n - 1) |-> {<<(<<t, j>>), 0>>}]}
      \cup {[j \in 0..(n - 1) |-> IF j = p THEN {<<(<<t, j>>), 0>>} ELSE {}] :
              p \in 0..(n - 1)}

InitFft ==
    /\ fft_pc = "none"
    /\ fft_n = 0
    /\ fft_alloc_ok = TRUE
    /\ fft_plan = NullPlan
    /\ fft_plan0 = NullPlan
    /\ fft_format = "aos"
    /\ fft_in = <<>>
    /\ fft_out = <<>>

\* A call of hlfft_plan_create(n, NULL).
fft_plan_create ==
    /\ UNCHANGED nonFftVars
    /\ fft_pc = "none"
    /\ \E n \in 0..MaxFftSize, alloc_ok \in BOOLEAN :
         LET plan == hlfft_plan_create(n, alloc_ok) IN
         /\ fft_n' = n
         /\ fft_alloc_ok' = alloc_ok
         /\ fft_plan' = plan
         /\ fft_plan0' = plan
         /\ g_initialized' = IF hlfft_size_valid(n) THEN 1 ELSE g_initialized
    /\ fft_pc' = "created"
    /\ UNCHANGED <<fft_format, fft_in, fft_out>>

\* hlfft_forward(plan, input, output) on the plan.
fft_forward ==
    /\ UNCHANGED nonFftVars
    /\ fft_pc = "created"
    /\ ~fft_plan.null
    /\ \E input \in FftInputs(0, fft_plan.n) :
         LET f == scalar_forward(fft_plan, input) IN
         /\ fft_in' = input
         /\ fft_out' = f.out
         /\ fft_plan' = f.plan
    /\ fft_format' = "aos"
    /\ fft_pc' = "done"
    /\ UNCHANGED <<g_initialized, fft_n, fft_alloc_ok, fft_plan0>>

\* hlfft_forward_soa(plan, in_re, in_im, out_re, out_im) on the plan.
fft_forward_soa ==
    /\ UNCHANGED nonFftVars
    /\ fft_pc = "created"
    /\ ~fft_plan.null
    /\ \E input \in FftInputs(0, fft_plan.n) :
         LET f == scalar_forward_split(fft_plan, input) IN
         /\ fft_in' = input
         /\ fft_out' = f.out
         /\ fft_plan' = f.plan
    /\ fft_format' = "soa"
    /\ fft_pc' = "done"
    /\ UNCHANGED <<g_initialized, fft_n, fft_alloc_ok, fft_plan0>>

NextFft ==
    \/ fft_plan_create
    \/ fft_forward
    \/ fft_forward_soa

(***************************************************************************)
(*        TWO THREADS TRANSFORMING ON ONE PLAN (stockham_scalar.c)         *)
(*                                                                         *)
(* Each thread runs hlfft_forward or hlfft_forward_soa on its own input    *)
(* and output buffers with the same plan.  A step is one pass over a       *)
(* buffer (a conversion or a stage); the passes of the two threads         *)
(* interleave.  The threads do not synchronise, so finer interleavings     *)
(* exist as well: these are the ones in which whole passes alternate.      *)
(***************************************************************************)
FftThreads == {1, 2}

SharedSizes == {n \in HLFFT_MIN_SIZE..MaxSharedSize : is_power_of_2(n)}

\* The input of thread t: n unrelated samples.
SharedInput(t, n) == [j \in 0..(n - 1) |-> {<<(<<t, j>>), 0>>}]

\* Contents of the buffer a thread's pointer designates.
ReadBuf(t, name) ==
    CASE name = "work" -> sh_plan.work
      [] name = "work2" -> sh_plan.work2
      [] name = "out" -> sh_out[t]

\* The plan and the thread's output buffer after the thread wrote buffer name.
PlanAfterWrite(name, val) ==
    CASE name = "work" -> [sh_plan EXCEPT !.work = val]
      [] name = "work2" -> [sh_plan EXCEPT !.work2 = val]
      [] name = "out" -> sh_plan

OutAfterWrite(t, name, val) ==
    IF name = "out" THEN [sh_out EXCEPT ![t] = val] ELSE sh_out

InitShared ==
    /\ sh_plan = NullPlan
    /\ sh_plan0 = NullPlan
    /\ sh_pc = [t \in FftThreads |-> "idle"]
    /\ sh_format = [t \in FftThreads |-> "aos"]
    /\ sh_stage = [t \in FftThreads |-> 0]
    /\ sh_src = [t \in FftThreads |-> "work"]
    /\ sh_dst = [t \in FftThreads |-> "work2"]
    /\ sh_out = [t \in FftThreads |-> <<>>]

\* The plan is created, before the threads run.
shared_plan_create ==
    /\ UNCHANGED nonShVars
    /\ sh_plan.null
    /\ \E n \in SharedSizes :
         /\ sh_plan' = hlfft_plan_create(n, TRUE)
         /\ sh_plan0' = hlfft_plan_create(n, TRUE)
         /\ sh_out' = [t \in FftThreads |-> FreshBuffer(n)]
    /\ sh_pc' = [t \in FftThreads |-> "start"]
    /\ UNCHANGED <<sh_format, sh_stage, sh_src, sh_dst>>

\* scalar_forward up to the stage loop: aos_to_soa(input, plan->work_re,
\* plan->work_im, n); src = work, dst = work2.
shared_forward_start(t) ==
    /\ UNCHANGED nonShVars
    /\ sh_pc[t] = "start"
    /\ sh_plan' = [sh_plan EXCEPT !.work = SharedInput(t, sh_plan.n)]
    /\ sh_format' = [sh_format EXCEPT ![t] = "aos"]
    /\ sh_stage' = [sh_stage EXCEPT ![t] = 0]
    /\ sh_src' = [sh_src EXCEPT ![t] = "work"]
    /\ sh_dst' = [sh_dst EXCEPT ![t] = "work2"]
    /\ sh_pc' = [sh_pc EXCEPT ![t] = "stages"]
    /\ UNCHANGED <<sh_plan0, sh_out>>

\* scalar_forward_split up to the stage loop: for log4n = 0 the radix-2 stage
\* from the input to the output and return; else the choice of buf0 and buf1
\* and stage 0 from the input to buf0.
shared_split_start(t) ==
    /\ UNCHANGED nonShVars
    /\ sh_pc[t] = "start"
    /\ LET n == sh_plan.n
           total_stages == sh_plan.log4n
                             + (IF sh_plan.has_radix2_stage THEN 1 ELSE 0)
           buf0 == IF total_stages % 2 = 1 THEN "out" ELSE "work"
           buf1 == IF total_stages % 2 = 1 THEN "work" ELSE "out"
       IN IF sh_plan.log4n = 0
            THEN /\ sh_out' = [sh_out EXCEPT ![t] =
                      stockham_radix2_last_scalar(SharedInput(t, n), n)]
                 /\ sh_pc' = [sh_pc EXCEPT ![t] = "done"]
                 /\ UNCHANGED <<sh_plan, sh_stage, sh_src, sh_dst>>
            ELSE LET val == stockham_radix4_otf_scalar(SharedInput(t, n),
                                                       sh_plan.tw[1], n, 0)
                 IN /\ sh_plan' = PlanAfterWrite(buf0, val)
                    /\ sh_out' = OutAfterWrite(t, buf0, val)
                    /\ sh_stage' = [sh_stage EXCEPT ![t] = 1]
                    /\ sh_src' = [sh_src EXCEPT ![t] = buf0]
                    /\ sh_dst' = [sh_dst EXCEPT ![t] = buf1]
                    /\ sh_pc' = [sh_pc EXCEPT ![t] = "stages"]
    /\ sh_format' = [sh_format EXCEPT ![t] = "soa"]
    /\ UNCHANGED sh_plan0

\* One radix-4 stage of the loop, and the swap of src and dst.
shared_radix4(t) ==
    /\ UNCHANGED nonShVars
    /\ sh_pc[t] = "stages"
    /\ sh_stage[t] < sh_plan.log4n
    /\ LET val == stockham_radix4_otf_scalar(ReadBuf(t, sh_src[t]),
                                             sh_plan.tw[sh_stage[t] + 1],
                                             sh_plan.n, sh_stage[t])
       IN /\ sh_plan' = PlanAfterWrite(sh_dst[t], val)
          /\ sh_out' = OutAfterWrite(t, sh_dst[t], val)
    /\ sh_stage' = [sh_stage EXCEPT ![t] = sh_stage[t] + 1]
    /\ sh_src' = [sh_src EXCEPT ![t] = sh_dst[t]]
    /\ sh_dst' = [sh_dst EXCEPT ![t] = sh_src[t]]
    /\ UNCHANGED <<sh_plan0, sh_pc, sh_format>>

\* After the loop: the final radix-2 stage if the plan has one, then
\* soa_to_aos for the interleaved format (pc "copy") or the return.
shared_radix2(t) ==
    /\ UNCHANGED nonShVars
    /\ sh_pc[t] = "stages"
    /\ sh_stage[t] >= sh_plan.log4n
    /\ IF sh_plan.has_radix2_stage
         THEN LET val == stockham_radix2_last_scalar(ReadBuf(t, sh_src[t]),
                                                     sh_plan.n)
              IN /\ sh_plan' = PlanAfterWrite(sh_dst[t], val)
                 /\ sh_out' = OutAfterWrite(t, sh_dst[t], val)
                 /\ sh_src' = [sh_src EXCEPT ![t] = sh_dst[t]]
         ELSE UNCHANGED <<sh_plan, sh_out, sh_src>>
    /\ sh_pc' = [sh_pc EXCEPT ![t] = IF sh_format[t] = "aos" THEN "copy"
                                                             ELSE "done"]
    /\ UNCHANGED <<sh_plan0, sh_format, sh_stage, sh_dst>>

\* soa_to_aos(src_re, src_im, output, n).
shared_copy_out(t) ==
    /\ UNCHANGED nonShVars
    /\ sh_pc[t] = "copy"
    /\ sh_out' = [sh_out EXCEPT ![t] = ReadBuf(t, sh_src[t])]
    /\ sh_pc' = [sh_pc EXCEPT ![t] = "done"]
    /\ UNCHANGED <<sh_plan, sh_plan0, sh_format, sh_stage, sh_src, sh_dst>>

NextShared ==
    \/ shared_plan_create
    \/ \E t \in FftThreads :
         \/ shared_forward_start(t)
         \/ shared_split_start(t)
         \/ shared_radix4(t)
         \/ shared_radix2(t)
         \/ shared_copy_out(t)

(***************************************************************************)
(*        CHANNELIZER_PROCESS, PUSH BY PUSH (channelizer.c:463-569)        *)
(***************************************************************************)
\* Lengths of the inputs: one block and two blocks of D samples.
PushChunks(D) == {D, 2 * D}

\* The calls stop once every branch has received MaxWindowFills times the
\* length of its window.
PushLimit(c) == MaxWindowFills * c.window_len * c.num_channels

InitPush ==
    /\ cp_ch = ZeroChan
    /\ cp_pc = "idle"
    /\ cp_call = [n_samples |-> 0, s |-> 0, i |-> 0, filter_index |-> 0,
                  output_idx |-> 0]
    /\ cp_fed = 0
    /\ cp_frame = <<>>
    /\ cp_pushed = <<>>
    /\ cp_npush = 0

\* channelizer_init by the producer thread alone, as in chan_init.
push_init ==
    /\ UNCHANGED nonPushVars
    /\ cp_ch.initialized = 0
    /\ cp_pc = "idle"
    /\ \E nc \in ChanNumChannels, rate \in ChanInputRates,
          max_input \in ChanMaxInputs,
          alloc_ok \in BOOLEAN, lfft_ok \in BOOLEAN :
         LET a == [num_channels |-> nc, input_rate |-> rate] IN
         IF ~ParamsValid(a) \/ ~alloc_ok
           THEN /\ cp_ch' = ZeroChan
                /\ UNCHANGED <<cp_pushed, hlfft_init_state, g_initialized>>
         ELSE IF hlfft_init_state = INIT_NOT_STARTED /\ ~lfft_ok
           THEN /\ hlfft_init_state' = INIT_FAILED
                /\ cp_ch' = channelizer_free(cp_ch)
                /\ UNCHANGED <<cp_pushed, g_initialized>>
         ELSE IF hlfft_init_state \in {INIT_NOT_STARTED, INIT_DONE}
           THEN /\ g_initialized' = 1
                /\ hlfft_init_state' = INIT_DONE
                /\ cp_ch' = ChanBuilt(nc, max_input)
                /\ cp_pushed' = [b \in 0..(nc - 1) |-> <<>>]
         ELSE /\ cp_ch' = channelizer_free(cp_ch)
              /\ UNCHANGED <<cp_pushed, hlfft_init_state, g_initialized>>
    /\ UNCHANGED <<cp_pc, cp_call, cp_fed, cp_frame, cp_npush>>

\* Entry of channelizer_process with n more samples of the stream: the argument
\* check, the n_samples == 0 return and the hoisting of the fields to locals.
push_call ==
    /\ UNCHANGED nonPushVars
    /\ UNCHANGED <<hlfft_init_state, g_initialized>>
    /\ cp_pc = "idle"
    /\ cp_ch.initialized = 1
    /\ cp_npush < PushLimit(cp_ch)
    /\ \E n \in PushChunks(cp_ch.decimation_factor) :
         /\ ~ProcessRejects(cp_ch, FALSE, n)
         /\ n # 0
         /\ cp_call' = [n_samples |-> n, s |-> 0, i |-> 0,
                        filter_index |-> cp_ch.filter_index,
                        output_idx |-> 0]
         /\ cp_pc' = IF BlockFits(0, cp_ch.decimation_factor, n)
                       THEN "push" ELSE "ret"
    /\ UNCHANGED <<cp_ch, cp_fed, cp_frame, cp_pushed, cp_npush>>

\* One iteration of the commutator loop: input[s + i] goes to the branch the
\* local filter_index names; ch->filter_index is written only at the return.
push_sample ==
    /\ UNCHANGED nonPushVars
    /\ UNCHANGED <<hlfft_init_state, g_initialized>>
    /\ cp_pc = "push"
    /\ LET x == Samples(cp_fed, cp_call.n_samples)[cp_call.s + cp_call.i + 1]
           idx == cp_call.filter_index
           c1 == CommutatorPush([cp_ch EXCEPT !.filter_index = idx], x)
       IN /\ cp_ch' = [c1 EXCEPT !.filter_index = cp_ch.filter_index]
          /\ cp_call' = [cp_call EXCEPT !.i = cp_call.i + 1,
                                        !.filter_index = c1.filter_index]
          /\ cp_pushed' = [cp_pushed EXCEPT ![idx] = Append(cp_pushed[idx], x)]
          /\ cp_npush' = cp_npush + 1
          /\ cp_pc' = IF cp_call.i + 1 < cp_ch.decimation_factor
                        THEN "push" ELSE "block"
    /\ UNCHANGED <<cp_fed, cp_frame>>

\* The rest of a block: the M dot products into the FFT input, the FFT, the
\* output store when the buffer has room, and the step s += D of the loop.
push_block ==
    /\ UNCHANGED nonPushVars
    /\ UNCHANGED <<hlfft_init_state, g_initialized>>
    /\ cp_pc = "block"
    /\ LET D == cp_ch.decimation_factor IN
       /\ cp_frame' = FftInput([cp_ch EXCEPT
                                  !.filter_index = cp_call.filter_index])
       /\ cp_call' = [cp_call EXCEPT
                        !.s = cp_call.s + D,
                        !.i = 0,
                        !.output_idx =
                            IF cp_call.output_idx < cp_ch.output_buf_size
                              THEN cp_call.output_idx + 1
                              ELSE cp_call.output_idx]
       /\ cp_pc' = IF BlockFits(cp_call.s + D, D, cp_call.n_samples)
                     THEN "push" ELSE "ret"
    /\ UNCHANGED <<cp_ch, cp_fed, cp_pushed, cp_npush>>

\* ch->filter_index = filter_index; ... *out_samples = output_idx; return 0;
push_return ==
    /\ UNCHANGED nonPushVars
    /\ UNCHANGED <<hlfft_init_state, g_initialized>>
    /\ cp_pc = "ret"
    /\ cp_ch' = [cp_ch EXCEPT !.filter_index = cp_call.filter_index]
    /\ cp_fed' = cp_fed + cp_call.n_samples
    /\ cp_pc' = "idle"
    /\ UNCHANGED <<cp_call, cp_frame, cp_pushed, cp_npush>>

NextPush ==
    \/ push_init
    \/ push_call
    \/ push_sample
    \/ push_block
    \/ push_return

(***************************************************************************)
(*                             SPECIFICATIONS                              *)
(***************************************************************************)
Init ==
    /\ InitGate /\ InitDedup /\ InitRes /\ InitChan /\ InitResInit /\ InitSdr
    /\ InitFft /\ InitShared /\ InitPush

Spec == Init /\ [][NextGate]_vars

\* Every thread inside a call keeps being scheduled.
FairSpec == Spec /\ \A t \in Threads : WF_vars(ThreadStep(t))

SpecDedup == Init /\ [][NextDedup]_vars

SpecRes == Init /\ [][NextRes]_vars

SpecChan == Init /\ [][NextChan]_vars

SpecResInit == Init /\ [][NextResInit]_vars

SpecSdr == Init /\ [][NextSdr]_vars

SpecFft == Init /\ [][NextFft]_vars

SpecShared == Init /\ [][NextShared]_vars

SpecPush == Init /\ [][NextPush]_vars

\* The acquisition thread keeps being scheduled and the rtl_tcp stream keeps
\* delivering (or ends), and a thread inside sdr_stop keeps running.
FairSpecSdr ==
    /\ SpecSdr
    /\ WF_vars(AcquireStep)
    /\ WF_vars(sdr_stop_set)
    /\ WF_vars(sdr_stop_join)

(***************************************************************************)
(* Claims about the one-time initialisation gate.                          *)
(***************************************************************************)

\* C1: over any interleaving of concurrent channelizer_init calls, exactly one
\* caller wins the compare-and-swap NOT_STARTED -> IN_PROGRESS and runs the
\* global hlfft_init; no other caller ever runs it.  At most one CAS ever
\* succeeds; as soon as any call has executed its CAS there is exactly one
\* winner; every run of hlfft_init is the winner's, and once the gate has
\* reached a terminal state, or any call is past it, hlfft_init has run
\* exactly once.
C1_ExactlyOneInitialiser ==
    /\ cas_wins <= 1
    /\ (hlfft_init_state # INIT_NOT_STARTED) <=> (cas_wins = 1)
    /\ \A t \in Threads : cas_result[t] # "none" => cas_wins = 1
    /\ Cardinality({t \in Threads : cas_result[t] = "won"}) <= 1
    /\ Len(init_callers) <= 1
    /\ \A i \in 1..Len(init_callers) : init_callers[i] = "won"
    /\ (\/ hlfft_init_state \in {INIT_DONE, INIT_FAILED}
        \/ \E t \in Threads : pc[t] = "plan" \/ h[t].initialized = 1)
         => Len(init_callers) = 1

\* C1 witness: three calls raced; one won and ran hlfft_init, two lost, and a
\* loser has completed its initialisation.
C1_Witness ==
    /\ cas_wins = 1
    /\ init_callers = <<"won">>
    /\ Cardinality({t \in Threads : cas_result[t] = "lost"}) >= 2
    /\ \E t \in Threads : cas_result[t] = "lost" /\ h[t].initialized = 1

\* C2: no channelizer_init call goes past the gate (is about to create its FFT
\* plan, or has returned success) unless the init state is DONE; a caller that
\* lost the CAS has left the spin loop only with the state no longer
\* IN_PROGRESS, and proceeds only on DONE.
C2_PastGateOnlyWhenDone ==
    \A t \in Threads :
        /\ (pc[t] = "plan" \/ h[t].initialized = 1)
             => hlfft_init_state = INIT_DONE
        /\ pc[t] = "recheck" => hlfft_init_state # INIT_IN_PROGRESS

\* C2 witness: a caller that lost the CAS, saw IN_PROGRESS in the spin loop,
\* and is now past the gate.
C2_Witness ==
    \E t \in Threads :
        cas_result[t] = "lost" /\ waited[t] /\ pc[t] = "plan"

\* C3: whenever the state is IN_PROGRESS it eventually becomes DONE or FAILED,
\* and every call in the spin-wait eventually returns (every thread inside a
\* call keeps being scheduled).
C3_SpinWaitEnds ==
    /\ (hlfft_init_state = INIT_IN_PROGRESS)
         ~> (hlfft_init_state \in {INIT_DONE, INIT_FAILED})
    /\ \A t \in Threads : (pc[t] = "spin") ~> (pc[t] = "idle")

\* C3 witness: a call that lost the CAS, spun on IN_PROGRESS, and has returned.
C3_Witness ==
    \E t \in Threads :
        cas_result[t] = "lost" /\ waited[t] /\ pc[t] = "idle"

(***************************************************************************)
(* Claims about the dedup ring.                                            *)
(***************************************************************************)

\* The forwarded record number i was forwarded before the last check, has the
\* fingerprint of the last check, lies more than 1 kHz away from it and at
\* most 500 ms before it.
C4_EarlierCrossChannel(i) ==
    /\ i \in 1..last.nfwd
    /\ fwd_log[i].hash = last.hash
    /\ Abs(last.freq - fwd_log[i].freq) > 1000
    /\ last.now - fwd_log[i].timestamp_us <= 500 * 1000

\* C4 (as claimed): if a record with fingerprint H was forwarded at frequency
\* F1 at time T1, a later check of the same fingerprint at F2 with
\* |F2 - F1| > 1 kHz and T2 - T1 <= 500 ms returns suppress (1), for any
\* sequence of checks in between.
C4_Original ==
    (last.called /\ last.hash # NullData)
      => \A i \in 1..Len(fwd_log) : C4_EarlierCrossChannel(i) => last.result = 1

\* C4 (amended): the same, provided fewer than 32 records were forwarded
\* between the two (the ring holds the last 32 forwarded records only).
C4_Amended ==
    (last.called /\ last.hash # NullData)
      => \A i \in 1..Len(fwd_log) :
            (C4_EarlierCrossChannel(i) /\ last.nfwd - i < 32)
              => last.result = 1

\* C4 witness: a check suppressed because of a record forwarded on another
\* channel with exactly 31 records forwarded in between.
C4_Witness ==
    /\ last.called
    /\ last.result = 1
    /\ \E i \in 1..Len(fwd_log) :
          C4_EarlierCrossChannel(i) /\ last.nfwd - i = 31

\* C5: wb_dedup_check returns suppress (1) only if the ring holds an entry with
\* the same fingerprint, at most 500 ms old and more than 1 kHz away; hence a
\* repeat whose matching records of the last 500 ms are all on its own channel
\* frequency, and a repeat arriving more than 500 ms after every matching
\* record, are forwarded (0).
C5_SuppressOnlyIf ==
    last.called =>
      /\ last.result \in {0, 1}
      /\ last.result = 1 =>
           \E i \in 0..(dedup.count - 1) :
              /\ i \in CacheIndex
              /\ dedup.cache[i].hash = last.hash
              /\ last.now - dedup.cache[i].timestamp_us <= 500 * 1000
              /\ Abs(last.freq - dedup.cache[i].freq) > 1000
      /\ (\A i \in 1..last.nfwd :
             (/\ fwd_log[i].hash = last.hash
              /\ last.now - fwd_log[i].timestamp_us <= 500 * 1000)
               => Abs(last.freq - fwd_log[i].freq) <= 1000)
           => last.result = 0
      /\ (\A i \in 1..last.nfwd :
             fwd_log[i].hash = last.hash
               => last.now - fwd_log[i].timestamp_us > 500 * 1000)
           => last.result = 0

\* C5 witness: a suppressed check while the ring also holds an entry of the
\* same fingerprint that is older than 500 ms.
C5_Witness ==
    /\ last.called
    /\ last.result = 1
    /\ \E i \in 0..(dedup.count - 1) :
          /\ dedup.cache[i].hash = last.hash
          /\ last.now - dedup.cache[i].timestamp_us > 500 * 1000

(***************************************************************************)
(* Claims about the resampler.                                             *)
(***************************************************************************)

\* One call, on a freshly initialised resampler of the same rates whose
\* buffer is sized for it, on the whole input fed so far.
C6_Reference ==
    LET i == cf32_resampler_init(Word(res_args[1], UINT32_BYTES),
                                 Word(res_args[2], UINT32_BYTES),
                                 Word(res_fed, SIZE_BYTES), "none") IN
    cf32_resampler_process(i.res, Samples(0, res_fed),
                           IntCast(i.res.output_buf_size))

\* C6: for an initialised resampler, splitting an input into any series of
\* consecutive process calls, none cut short by max_output, yields,
\* concatenated, the same number of outputs and the same output sequence as a
\* single call on the whole input; the phase accumulator and the history carry
\* over between calls (they end as the single call leaves them).
C6_ChunkingEquivalence ==
    (res.initialized = 1 /\ ~res_trunc) =>
        /\ ~C6_Reference.trunc
        /\ Len(res_acc) = Len(C6_Reference.out)
        /\ res_acc = C6_Reference.out
        /\ res.phase_idx = C6_Reference.res.phase_idx
        /\ res.write_pos = C6_Reference.res.write_pos
        /\ res.hist = C6_Reference.res.hist

\* C6 witness: three untruncated calls, the first long enough for the later
\* ones to wrap the history write cursor, each of the later ones non-empty.
C6_Witness ==
    /\ res.initialized = 1
    /\ ~res_trunc
    /\ res_calls = 3
    /\ res_fed = (RESAMPLER_HIST_MIN - 2) + 2 * MaxChunk
    /\ Len(res_acc) > res_fed

\* C10: once the resampler is initialised, no process call in any sequence of
\* calls (any num_iq_samples >= 0, any max_output >= 0) fails or indexes out of
\* bounds, and the returned count is at most min(max_output, output_buf_size).
C10_ProcessNeverOutOfBounds ==
    res.initialized = 1 =>
        /\ ~res_oob
        /\ ~res_crashed
        /\ res_last.called =>
             /\ res_last.n_out <= res_last.max_output
             /\ res_last.n_out <= IntCast(res.output_buf_size)

(***************************************************************************)
(* C7: for every channel k, the outputs of consecutive channelizer_process *)
(* calls whose lengths are multiples of D = M/2 equal, sample for sample   *)
(* and sign for sign, the outputs of one call on the concatenated input:   *)
(* the sign (-1)^(k*n) counts n over the whole stream.                     *)
(***************************************************************************)
\* One call on the whole stream fed so far, by a channelizer initialised with
\* the same arguments.
ChanReference ==
    channelizer_process(ChanBuilt(ch_args[1], ch_args[3]), FALSE,
                        Samples(0, ch_fed), ch_fed)

ChanChannelSeq(frames, k) ==
    [n \in 1..Len(frames) |-> ChannelSample(frames[n], k)]

C7_BlockAlignedCalls ==
    /\ ch.initialized = 1
    /\ Len(ch_log) >= 2
    /\ ch_fed <= ch_args[3]
    /\ \A i \in 1..Len(ch_log) :
         /\ ch_log[i].ret = 0
         /\ ch_log[i].n > 0
         /\ ch_log[i].n % ch.decimation_factor = 0

C7_StreamContinuity ==
    C7_BlockAlignedCalls =>
        \A k \in 0..(ch.num_channels - 1) :
            ChanChannelSeq(ch_acc, k) = ChanChannelSeq(ChanReference.out, k)

(***************************************************************************)
(* C8: an input of n samples processed as two consecutive calls, the first *)
(* half then the second half, gives the same total number of outputs per   *)
(* channel as the n samples processed in one call.                         *)
(***************************************************************************)
C8_TwoHalves ==
    /\ ch.initialized = 1
    /\ Len(ch_log) = 2
    /\ ch_log[1].ret = 0 /\ ch_log[2].ret = 0
    /\ ch_log[1].n >= 0
    /\ ch_log[2].n \in {ch_log[1].n, ch_log[1].n + 1}

\* The claim as stated, read in its favour: the n samples fit max_input, so the
\* capacity of the output buffers plays no part.
C8_Original ==
    (C8_TwoHalves /\ ch_fed <= ch_args[3])
        => Len(ch_acc) = Len(ChanReference.out)

\* C8 as the code has it: the counts agree when the first half is a whole
\* number of blocks of D samples and the n samples fit max_input.
C8_Amended ==
    (/\ C8_TwoHalves
     /\ ch_log[1].n % ch.decimation_factor = 0
     /\ ch_fed <= ch_args[3])
        => Len(ch_acc) = Len(ChanReference.out)

C8_Witness ==
    /\ C8_TwoHalves
    /\ ch.num_channels = 8
    /\ ch_log[1].n = 2 * ch.decimation_factor
    /\ ch_log[2].n = 2 * ch.decimation_factor
    /\ ch_fed <= ch_args[3]
    /\ Len(ch_acc) = 4

Min(a, b) == IF a < b THEN a ELSE b

C11_PassthroughCopies ==
    (/\ res_ret = 0
     /\ res.initialized = 0
     /\ res_last.called
     /\ res_last.max_output >= res_last.num)
        => /\ res_last.n_out = res_last.num
           /\ res_acc = Samples(0, res_fed)

(***************************************************************************)
(* C12: cf32_resampler_init never succeeds with a mis-sized output buffer: *)
(* when it returns 0 with resampling enabled, output_buf_size is at least  *)
(* ceil(max_input_samples * L / M) + L, and whenever max_input_samples * L *)
(* or the byte size of the buffer overflows size_t it returns an error.    *)
(* The reference values are computed exactly, in WIDE_BYTES-byte words.    *)
(***************************************************************************)
WIDE_BYTES == SIZE_BYTES + UINT32_BYTES

\* max_input_samples * L, exactly.
ExactProduct(max_input_samples, L) ==
    WordMul(WordExt(max_input_samples, WIDE_BYTES), L)

\* ceil(max_input_samples * L / M) + L, exactly.
ExactNeed(max_input_samples, L, M) ==
    LET d == WordDiv(ExactProduct(max_input_samples, L), M)
        ceil == IF d.r > 0 THEN WordAdd(d.q, Word(1, WIDE_BYTES)) ELSE d.q
    IN WordAdd(ceil, Word(L, WIDE_BYTES))

\* sizeof(float) * 2 * (max_input_samples * L / M + L + 1), exactly.
ExactBytes(max_input_samples, L, M) ==
    WordMul(WordAdd(WordAdd(WordDiv(ExactProduct(max_input_samples, L), M).q,
                            Word(L, WIDE_BYTES)),
                    Word(1, WIDE_BYTES)), 8)

\* The value does not fit a size_t.
OverflowsSize(x) == \E i \in (SIZE_BYTES + 1)..Len(x) : x[i] # 0

C12_OutputBufferSized ==
    (/\ ri_pc = "inited"
     /\ ri_args[1] # ri_args[2]
     /\ ri_err \in {"ok", "size"})
        => LET L == ri_res.up_factor
               M == ri_res.down_factor
           IN /\ ri_ret = 0 =>
                   ~WordLess(WordExt(ri_res.output_buf_size, WIDE_BYTES),
                             ExactNeed(ri_args[3], L, M))
              /\ (\/ OverflowsSize(ExactProduct(ri_args[3], L))
                  \/ OverflowsSize(ExactBytes(ri_args[3], L, M)))
                     => ri_ret # 0

(***************************************************************************)
(* C13: cf32_resampler_init returns non-zero and leaves the resampler      *)
(* uninitialised whenever a rate is zero, either rate exceeds INT_MAX, or  *)
(* L * taps-per-branch would overflow a signed int.                        *)
(***************************************************************************)
RateExceedsIntMax(rate) == WordLess(Word(INT_MAX, UINT32_BYTES), rate)

\* L * RESAMPLER_TAPS_PER_BRANCH > INT_MAX, for rates that are in range.
FactorOverflows(input_rate, output_rate) ==
    /\ ~WordIsZero(input_rate) /\ ~WordIsZero(output_rate)
    /\ ~RateExceedsIntMax(input_rate) /\ ~RateExceedsIntMax(output_rate)
    /\ LET g == cf32_resampler_gcd(WordVal(output_rate), WordVal(input_rate))
       IN WordVal(output_rate) \div g > INT_MAX \div RESAMPLER_TAPS_PER_BRANCH

C13_Rejected == ri_ret # 0 /\ ri_res.initialized = 0

ResPointers(r) == {r.branches, r.branch_data, r.hist_i, r.hist_q,
                   r.output_buf}

C14_AllocFailureReleasesAll ==
    ri_err = "alloc"
        => /\ ri_heap = {}
           /\ ri_pc = "inited" => ResPointers(ri_res) = {"null"}
           /\ ri_pc = "freed" => ~ri_double_free

(***************************************************************************)
(* C15: a freshly initialised resampler with ratio L/M that is fed n input *)
(* samples in total, in one or several calls none of which is truncated by *)
(* max_output, has produced exactly n * L / M output samples whenever      *)
(* n * L is divisible by M.                                                *)
(***************************************************************************)
C15_SampleRatio ==
    (/\ res_ret = 0
     /\ res.initialized = 1
     /\ ~res_trunc
     /\ (res_fed * res.up_factor) % res.down_factor = 0)
        => Len(res_acc) = (res_fed * res.up_factor) \div res.down_factor

C15_Witness ==
    /\ res_ret = 0
    /\ res.initialized = 1
    /\ res.up_factor = 4
    /\ res.down_factor = 5
    /\ ~res_trunc
    /\ res_calls = 2
    /\ res_fed = 5
    /\ Len(res_acc) = 4

(***************************************************************************)
(* C16: after the owning thread has set exit_acquire (sdr_stop), the       *)
(* acquisition loop leaves its read loop within one SDR buffer: at most    *)
(* one further buffer read completes, and the loop terminates.             *)
(***************************************************************************)
C16_StopsWithinOneBuffer ==
    /\ [](reads_after_stop <= 1)
    /\ (exit_acquire = 1) ~> (acq_pc = "done")

C16_Witness ==
    /\ exit_acquire = 1
    /\ reads_after_stop = 1
    /\ sdr_reads >= 2
    /\ cb_calls >= 1
    /\ acq_pc = "done"
    /\ own_pc = "run"

(***************************************************************************)
(* C17: the acquisition loop reads exit_acquire with the device lock held  *)
(* before it delivers each data event, and once it has read the flag as    *)
(* set the acquisition thread never invokes the event callback again.      *)
(***************************************************************************)
C17_FlagReadBeforeEachEvent ==
    /\ acq_pc = "read_flag" => sdr_lock = "acq"
    /\ ~cb_unchecked
    /\ ~cb_after_seen
    /\ acq_seen_exit => acq_pc \in {"deliver", "done"}

C17_Witness ==
    /\ acq_seen_exit
    /\ acq_pc = "done"
    /\ cb_calls >= 2
    /\ reads_after_stop = 1

(***************************************************************************)
(* C18: an FFT plan is immutable after creation: a transform modifies no   *)
(* state owned by the plan, and two threads that run transforms on the     *)
(* same plan concurrently each obtain the output they would obtain alone.  *)
(***************************************************************************)
\* X[k] = sum over j of x[j] * W_n^(j k), bins in natural order.
ReferenceDft(x, n) ==
    [k \in 0..(n - 1) |-> UNION {Rot(x[j], (j * k) % n, n) : j \in 0..(n - 1)}]

C18_PlanImmutableAndShareable ==
    /\ ~sh_plan.null => sh_plan = sh_plan0
    /\ \A t \in FftThreads :
         sh_pc[t] = "done"
            => sh_out[t] = ReferenceDft(SharedInput(t, sh_plan.n), sh_plan.n)

(***************************************************************************)
(* C19: hlfft_plan_create returns a plan for exactly the power-of-two      *)
(* sizes N in [2, 32] and NULL for every other N (0, 1, every non-power of *)
(* two and every power of two above 32).                                   *)
(***************************************************************************)
C19_Original ==
    (fft_pc = "created" /\ fft_alloc_ok)
        => (~fft_plan.null <=> fft_n \in {2, 4, 8, 16, 32})

\* C19 as the code has it: no upper limit on the size.
C19_Amended ==
    fft_pc = "created"
        => (~fft_plan.null <=> /\ fft_alloc_ok
                               /\ fft_n >= 2
                               /\ \E k \in 1..30 : fft_n = Pow2(k))

C19_Witness ==
    /\ fft_pc = "created"
    /\ fft_alloc_ok
    /\ fft_n = 32
    /\ ~fft_plan.null
    /\ fft_plan.n = 32
    /\ fft_plan.log4n = 2
    /\ fft_plan.has_radix2_stage

(***************************************************************************)
(* C20: for N in {2, 4, 8, 16, 32} and every input x, the forward          *)
(* transform, interleaved and split format, writes                         *)
(* X[k] = sum_j x[j] * W_N^(j k) for k = 0..N-1 in natural bin order.      *)
(***************************************************************************)
C20_ForwardIsDft ==
    (fft_pc = "done" /\ fft_n \in {2, 4, 8, 16, 32})
        => fft_out = ReferenceDft(fft_in, fft_n)

C20_Witness ==
    /\ fft_pc = "done"
    /\ fft_n = 32
    /\ fft_format = "soa"
    /\ fft_in = [j \in 0..31 |-> {<<(<<0, j>>), 0>>}]
    /\ fft_out[1] = {<<(<<0, j>>), j>> : j \in 0..31}
    /\ fft_out[17] = {<<(<<0, j>>), (17 * j) % 32>> : j \in 0..31}

(***************************************************************************)
(* C21: channelizer_init returns -1 and leaves the handle uninitialised    *)
(* (initialized = 0, no buffer owned) whenever num_channels is below 2,    *)
(* above 16 or not a power of two, or input_rate is 0.                     *)
(***************************************************************************)
C21_BadArguments ==
    /\ ch_init_call.called
    /\ \/ ch_init_call.num_channels < 2
       \/ ch_init_call.num_channels > 16
       \/ ch_init_call.num_channels \notin {2^k : k \in 0..6}
       \/ ch_init_call.input_rate = 0

C21_InvalidArgumentsRejected ==
    C21_BadArguments =>
        /\ ch_init_call.ret = -1
        /\ ch.initialized = 0
        /\ ch.window = <<>> /\ ch.window_write_pos = <<>>
        /\ ch.fft_plan = 0
        /\ ch.output_buf_size = 0

C21_Witness ==
    /\ C21_BadArguments
    /\ ch_init_call.num_channels = 32
    /\ ch_init_call.input_rate = 2000000
    /\ ch_init_call.ret = -1
    /\ ch = ZeroChan

(***************************************************************************)
(* C22: channelizer_process returns -1 without changing any channelizer    *)
(* state or output when the handle is not initialised (its init failed, or *)
(* channelizer_free was called on it), when input is null, or when         *)
(* n_samples is negative.                                                  *)
(***************************************************************************)
C22_RejectedCallChangesNothing ==
    [][(/\ Len(ch_log') = Len(ch_log) + 1
        /\ LET call == ch_log'[Len(ch_log')] IN
           ch.initialized = 0 \/ call.null_input \/ call.n < 0)
       => (/\ ch_log'[Len(ch_log')].ret = -1
           /\ ch' = ch
           /\ ch_out' = ch_out
           /\ ch_acc' = ch_acc)]_vars

\* A call with a valid input on a handle that was initialised, used and then
\* freed: it is turned away and the caller's *out_samples keeps its value.
C22_Witness ==
    /\ ch_init_call.called /\ ch_init_call.ret = 0
    /\ ch.initialized = 0
    /\ Len(ch_log) = 2
    /\ ch_log[1].ret = 0 /\ ch_log[1].out_samples = 2
    /\ ch_log[2].ret = -1 /\ ch_log[2].n = 1 /\ ~ch_log[2].null_input
    /\ ch_out.out_samples = 2

(***************************************************************************)
(* C23: wb_dedup_suppressed_count(h) returns the total number of           *)
(* wb_dedup_check calls on h that returned suppress since h was created.   *)
(* The function is given the handle alone, so the number it returns is     *)
(* held by the state of the handle: a check that returns suppress, which   *)
(* raises the total by one, changes that state.                            *)
(***************************************************************************)
C23_SuppressedCountKept ==
    [][nsuppressed' # nsuppressed => dedup' # dedup]_vars

(***************************************************************************)
(* C25: after any sequence of wb_dedup_check calls 0 <= count <= 32 and    *)
(* 0 <= head < 32, and every scan (slots 0 .. count-1) and every insert    *)
(* (slot head) touches only the cache slots 0 .. 31.                       *)
(***************************************************************************)
C25_RingIndicesInBounds ==
    /\ 0 <= dedup.count /\ dedup.count <= 32
    /\ 0 <= dedup.head /\ dedup.head < 32
    /\ \A i \in 0..(ScanLimit(dedup) - 1) : i \in 0..31
    /\ DOMAIN dedup.cache = 0..31

\* The ring has been filled and head has wrapped to slot 0 and moved on.
C25_Witness ==
    /\ Len(fwd_log) = 33
    /\ dedup.count = 32
    /\ dedup.head = 1

(***************************************************************************)
(* C26: the ring always holds exactly the most recent min(k, 32) forwarded *)
(* records, k being the number forwarded so far: each forwarded check      *)
(* stores (hash, frequency, timestamp) at the head, once 32 are stored     *)
(* each insert overwrites the oldest, and a suppressed check or one with a *)
(* null context or record changes nothing.                                 *)
(***************************************************************************)
\* The j-th most recent entry of the ring (j = 0 is the newest).
C26_Recent(j) == dedup.cache[(dedup.head + 32 - 1 - j) % 32]

C26_RingHoldsRecent ==
    LET k == Len(fwd_log)
        held == IF k < 32 THEN k ELSE 32
    IN /\ dedup.count = held
       /\ dedup.head = k % 32
       /\ \A j \in 0..(held - 1) : C26_Recent(j) = fwd_log[k - j]
       /\ \A i \in held..31 : dedup.cache[i] = ZeroEntry

C26_RingOfForwarded ==
    [][/\ C26_RingHoldsRecent'
       /\ (last'.hash = NullData \/ last'.result = 1) => dedup' = dedup
       /\ (last'.hash # NullData /\ last'.result = 0) =>
             /\ dedup'.cache[dedup.head] =
                  [hash |-> last'.hash, freq |-> last'.freq,
                   timestamp_us |-> last'.now]
             /\ \A i \in 0..31 :
                  i # dedup.head => dedup'.cache[i] = dedup.cache[i]]_vars

\* The 33rd forwarded record has overwritten the oldest one, in slot 0, and a
\* suppressed check has followed.
C26_Witness ==
    /\ Len(fwd_log) = 33
    /\ dedup.cache[0] = fwd_log[33]
    /\ dedup.cache[1] = fwd_log[2]
    /\ last.result = 1

(***************************************************************************)
(* C24: the resampler phase_idx is in [0, L), L = up_factor, at entry to   *)
(* and at exit from every cf32_resampler_process call, in every reachable  *)
(* state and for every valid L/M, interpolating or decimating.             *)
(***************************************************************************)
C24_PhaseIdxInRange ==
    (res_ret = 0 /\ res.initialized = 1) =>
        (0 <= res.phase_idx /\ res.phase_idx < res.up_factor)

(***************************************************************************)
(* C27: after channelizer_init and after every sample push in              *)
(* channelizer_process, the window write cursor of each branch is in       *)
(* [P, 2P), P = TAPS_PER_BRANCH, so the P-sample window read at            *)
(* write_pos - P lies inside the 2P-sample buffer.                         *)
(***************************************************************************)
C27_CursorInUpperHalf ==
    cp_ch.initialized = 1 =>
        \A b \in 0..(cp_ch.num_channels - 1) :
            LET pos == cp_ch.window_write_pos[b]
                P == 2 * FILTER_SEMI_LEN
            IN /\ P <= pos /\ pos < 2 * P
               /\ 0 <= pos - P
               /\ (pos - P) + P <= 2 * P
               /\ DOMAIN cp_ch.window[b] = 0..(2 * P - 1)

\* Inside a block, just after the push that filled branch M - 1 for the first
\* time and moved its cursor back to P.
C27_Witness ==
    /\ cp_ch.initialized = 1
    /\ cp_ch.num_channels = 8
    /\ cp_pc = "push"
    /\ Len(cp_pushed[7]) = 48
    /\ Len(cp_pushed[6]) = 47
    /\ cp_ch.window_write_pos[7] = 48
    /\ cp_ch.window_write_pos[6] = 95

(***************************************************************************)
(* C28: filter_index is always in [0, M): it starts at M - 1 and is        *)
(* decremented by one modulo M for every input sample pushed, across any   *)
(* sequence of channelizer_process calls.                                  *)
(***************************************************************************)
\* filter_index as the code holds it: the local of the call in progress, the
\* field of the handle between calls.
C28_FilterIndex ==
    IF cp_pc = "idle" THEN cp_ch.filter_index ELSE cp_call.filter_index

C28_FilterIndexCountsDown ==
    cp_ch.initialized = 1 =>
        LET M == cp_ch.num_channels IN
        /\ 0 <= C28_FilterIndex /\ C28_FilterIndex < M
        /\ 0 <= cp_ch.filter_index /\ cp_ch.filter_index < M
        /\ C28_FilterIndex = (M - 1 + (M - 1) * cp_npush) % M
        /\ (cp_npush = 0 => C28_FilterIndex = M - 1)

\* Three pushes into the second call on 8 channels: the handle still holds the
\* index 3 the first call wrote back, the local has gone 3, 2, 1, 0.
C28_Witness ==
    /\ cp_ch.initialized = 1
    /\ cp_ch.num_channels = 8
    /\ cp_fed = 4
    /\ cp_pc = "push"
    /\ cp_npush = 7
    /\ cp_call.filter_index = 0
    /\ cp_ch.filter_index = 3

(***************************************************************************)
(* C29: for every branch, the P consecutive samples ending just before the *)
(* write cursor are exactly the last P samples pushed to that branch, in   *)
(* arrival order, with zeros where fewer than P were pushed; the shift of  *)
(* the upper P samples to the lower half loses, duplicates or reorders     *)
(* none.                                                                   *)
(***************************************************************************)
\* The last P entries of P zeros followed by the samples pushed to branch b.
C29_Expected(b) ==
    LET P == 2 * FILTER_SEMI_LEN
        padded == [j \in 1..P |-> 0] \o cp_pushed[b]
    IN SubSeq(padded, Len(padded) - P + 1, Len(padded))

C29_WindowHoldsLastP ==
    cp_ch.initialized = 1 =>
        \A b \in 0..(cp_ch.num_channels - 1) :
            LET P == 2 * FILTER_SEMI_LEN
                pos == cp_ch.window_write_pos[b]
            IN [j \in 1..P |-> cp_ch.window[b][pos - P + j - 1]]
                   = C29_Expected(b)

\* Branch 3 of 4 has wrapped once and received five more samples.
C29_Witness ==
    /\ cp_ch.initialized = 1
    /\ cp_ch.num_channels = 4
    /\ Len(cp_pushed[3]) = 48 + 5
    /\ cp_ch.window_write_pos[3] = 48 + 5
    /\ cp_ch.window[3][48 + 4] = cp_pushed[3][53]
    /\ cp_ch.window[3][5] = cp_pushed[3][6]

(***************************************************************************)
(* C30: the one-time-init state only takes the transitions NOT_STARTED ->  *)
(* IN_PROGRESS, IN_PROGRESS -> DONE and IN_PROGRESS -> FAILED; DONE and    *)
(* FAILED are never left, so after a failed global init no later           *)
(* channelizer_init runs the initialisation again and each one returns -1. *)
(***************************************************************************)
C30_GateTransitions ==
    [][/\ hlfft_init_state' # hlfft_init_state =>
            <<hlfft_init_state, hlfft_init_state'>> \in
                {<<INIT_NOT_STARTED, INIT_IN_PROGRESS>>,
                 <<INIT_IN_PROGRESS, INIT_DONE>>,
                 <<INIT_IN_PROGRESS, INIT_FAILED>>}
       /\ hlfft_init_state \in {INIT_DONE, INIT_FAILED} =>
            hlfft_init_state' = hlfft_init_state
       /\ hlfft_init_state = INIT_FAILED =>
            /\ init_callers' = init_callers
            /\ g_initialized' = g_initialized
            /\ \A t \in Threads :
                 /\ pc'[t] \notin {"hlfft_init", "store_done", "store_failed",
                                   "plan"}
                 /\ (pc[t] # "idle" /\ pc'[t] = "idle") => ret'[t] = -1]_vars

\* The initialisation has failed; the call that ran it and a call that came
\* to the gate afterwards (its CAS lost, it never had to wait) have both
\* returned -1, and the initialisation was run once.
C30_Witness ==
    /\ hlfft_init_state = INIT_FAILED
    /\ Len(init_callers) = 1
    /\ \E t, u \in Threads :
         /\ pc[t] = "idle" /\ cas_result[t] = "won" /\ ret[t] = -1
         /\ pc[u] = "idle" /\ cas_result[u] = "lost" /\ ~waited[u]
         /\ ret[u] = -1 /\ h[u] = ZeroHandle

====
